---------------------------- MODULE Spec2Model ----------------------------
(***************************************************************************)
(* Model of the media-relay session coordinator of server/src/server.ts:   *)
(* the peer registry (userSocketMap), the socket.io rooms, the mediasoup   *)
(* transports / producers / consumers the handlers create, and the         *)
(* asynchronous handlers themselves, which suspend at every await of a     *)
(* media-engine call and are resumed when the engine answers.              *)
(*                                                                         *)
(* JavaScript objects have identity: a handler suspended at an await keeps *)
(* a reference to the User object it looked up, whatever happens to        *)
(* userSocketMap meanwhile.  User objects therefore live in a heap (users) *)
(* and userSocketMap is an array of references into it; the Map objects    *)
(* behind User.producers / User.consumers live in a second heap (maps).    *)
(***************************************************************************)
EXTENDS Integers, Sequences, FiniteSets, TLC

\* ----------------------------------------------------------------- bounds
MaxObj == 3             \* User objects ever allocated (registry-only specifications)
MaxTransports == 3      \* transports the engine ever creates
MaxProducers == 2       \* producers the engine ever creates
MaxConsumers == 2       \* consumers the engine ever creates
MaxQueue == 2           \* engine requests in flight when a new request is accepted
MaxControl == 2         \* resumeConsumer / toggle requests the clients send in one run

Sock == {1, 2, 3}                 \* socket ids (connections)
MediaSock == {1, 2}               \* the connections that negotiate media
Names == {"sam", "kim"}
Rooms == {"r1", "r2"}
Kinds == {"audio", "video"}

Nil == 0                          \* undefined / null for a reference
Undefined == {"undefined"}        \* undefined rtpCapabilities (falsy in JavaScript)

VARIABLES
    userSocketMap,   \* let userSocketMap: User[]  (references into users)
    users,           \* heap of User objects
    maps,            \* heap of Map objects (keys in insertion order)
    connected,       \* socket.io: is the connection still open
    sockRooms,       \* socket.io: the rooms each socket has joined
    rooms,           \* const rooms: {[roomId]: Room}  (the ids under rooms[roomId].users)
    transports,      \* engine: WebRtcTransport objects
    producers,       \* engine: Producer objects
    consumers,       \* engine: Consumer objects
    queue,           \* engine requests awaiting their answer, each with its continuation
    out,             \* what the last step emitted: callbacks, emits and broadcasts
    done,            \* what the last step completed (a handler or helper that returned)
    subscriberResumed, \* history: the consumers a RESUME_CONSUMER of their subscriber resumed
    requests,        \* history: how many resumeConsumer / toggle requests the clients have sent
    process,         \* the Node process: has the worker died, is the exit timer armed, has it exited
    client           \* useMediasoup of one browser: the step of setupMediasoup and its pending request

vars == <<userSocketMap, users, maps, connected, sockRooms, rooms,
          transports, producers, consumers, queue, out, done, subscriberResumed,
          requests, process, client>>


\* --------------------------------------------------------------- helpers
Range(f) == {f[i] : i \in DOMAIN f}

NoDone == [h |-> "none"]

\* The sockets a broadcast `socket.to(room)` / `socket.broadcast.to(room)` reaches:
\* every socket that joined the socket.io room, except the sender.
RoomSockets(room) == {t \in Sock : room \in sockRooms[t]}
BroadcastTo(s, room) == RoomSockets(room) \ {s}

\* userSocketMap.find(u => u.socketId === socketId): the FIRST matching record.
FindIndex(arr, Test(_)) ==
    IF \E i \in 1..Len(arr) : Test(arr[i])
    THEN CHOOSE i \in 1..Len(arr) : Test(arr[i]) /\ \A j \in 1..(i-1) : ~Test(arr[j])
    ELSE 0

getUserBySocketId(socketId) ==
    LET i == FindIndex(userSocketMap, LAMBDA o : users[o].socketId = socketId)
    IN IF i = 0 THEN Nil ELSE userSocketMap[i]

\* A slip of getUsersInRoom: the whole list is returned.
getUsersInRoomUnfiltered(arr, heap, roomId) == arr

\* userSocketMap.filter(user => user.roomId === roomId)
getUsersInRoom(arr, heap, roomId) ==
    SelectSeq(arr, LAMBDA o : heap[o].roomId = roomId)

\* A cascade that iterates `for (const user of userSocketMap)` holds the array
\* object it started on: a push() on that array is seen by the iteration, while
\* an assignment `userSocketMap = userSocketMap.filter(...)` leaves it on the old one.
ArrayPush(q, o) ==
    [i \in 1..Len(q) |->
        IF "arrLive" \in DOMAIN q[i].k /\ q[i].k.arrLive
        THEN [q[i] EXCEPT !.k.arr = Append(@, o)]
        ELSE q[i]]

ArrayReplaced(q) ==
    [i \in 1..Len(q) |->
        IF "arrLive" \in DOMAIN q[i].k
        THEN [q[i] EXCEPT !.k.arrLive = FALSE]
        ELSE q[i]]

\* ------------------------------------------------------------------ Init
Init ==
    /\ userSocketMap = <<>>
    /\ users = <<>>
    /\ maps = <<>>
    /\ connected = [s \in Sock |-> TRUE]
    /\ sockRooms = [s \in Sock |-> {}]
    /\ rooms = [r \in Rooms |-> {}]
    /\ transports = <<>>
    /\ producers = <<>>
    /\ consumers = <<>>
    /\ queue = <<>>
    /\ out = <<>>
    /\ done = NoDone
    /\ subscriberResumed = {}
    /\ requests = 0
    /\ process = [workerDied |-> FALSE, exitTimer |-> FALSE, exited |-> FALSE]
    /\ client = [step |-> "capabilities", waiting |-> FALSE, timer |-> FALSE,
                 inflight |-> "none", track |-> "video", producerTransport |-> Nil,
                 error |-> "none", isVideoEnabled |-> FALSE,
                 toggle |-> [inflight |-> FALSE, fallback |-> FALSE, target |-> FALSE,
                             before |-> FALSE, answer |-> "none"]]

\* -------------------------------------------------------- peer registry
\* The User object JOIN_REQUEST builds ({...user, socketId, status, ...}).
NewUser(s, username, roomId) ==
    [socketId |-> s, username |-> username, roomId |-> roomId,
     rtpCapabilities |-> Undefined,
     producerTransport |-> Nil, consumerTransport |-> Nil,
     producers |-> Nil, consumers |-> Nil,
     hasVideo |-> FALSE, hasAudio |-> FALSE,
     typing |-> FALSE]

\* A slip of existingUser: only the first record of the list is compared.
UsernameExistsFirstOnly(username, roomId) ==
    /\ userSocketMap # <<>>
    /\ users[userSocketMap[1]].roomId = roomId
    /\ users[userSocketMap[1]].username = username

\* existingUser = userSocketMap.find(u => u.roomId === user.roomId &&
\*                                         u.username === user.username)
UsernameExists(username, roomId) ==
    \E i \in 1..Len(userSocketMap) :
        /\ users[userSocketMap[i]].roomId = roomId
        /\ users[userSocketMap[i]].username = username

\* socket.on(SocketEvent.JOIN_REQUEST)
JoinRequest(s, username, roomId) ==
    /\ connected[s]
    /\ done' = NoDone
    /\ IF UsernameExists(username, roomId)
       THEN /\ out' = <<[ev |-> "username-exists", to |-> {s}]>>
            /\ UNCHANGED <<userSocketMap, users, sockRooms, queue>>
       ELSE LET o == Len(users) + 1
                heap == Append(users, NewUser(s, username, roomId))
                arr == Append(userSocketMap, o)
                joined == [sockRooms EXCEPT ![s] = @ \cup {roomId}]
                roomUsers == SelectSeq(getUsersInRoom(arr, heap, roomId),
                                       LAMBDA u : heap[u].socketId # s)
            IN /\ users' = heap
               /\ userSocketMap' = arr
               /\ sockRooms' = joined
               /\ queue' = ArrayPush(queue, o)
               /\ out' = <<[ev |-> "join-accepted", to |-> {s}, user |-> o, users |-> roomUsers],
                           [ev |-> "user-joined",
                            to |-> {t \in Sock : roomId \in joined[t]} \ {s},
                            user |-> o]>>
    /\ UNCHANGED <<maps, connected, rooms, transports, producers, consumers, subscriberResumed>>

\* socket.on(SocketEvent.JOIN_ROOM)
JoinRoom(s, username, roomId) ==
    /\ connected[s]
    /\ done' = NoDone
    /\ LET joined == [sockRooms EXCEPT ![s] = @ \cup {roomId}]
           known == \E i \in 1..Len(userSocketMap) : users[userSocketMap[i]].socketId = s
           o == Len(users) + 1
           dir == [rooms EXCEPT ![roomId] = @ \cup {s}]
       IN /\ sockRooms' = joined
          /\ IF known
             THEN UNCHANGED <<users, userSocketMap, queue>>
             ELSE /\ users' = Append(users, NewUser(s, username, roomId))
                  /\ userSocketMap' = Append(userSocketMap, o)
                  /\ queue' = ArrayPush(queue, o)
          /\ rooms' = dir
          /\ out' = <<[ev |-> "user-joined",
                       to |-> {t \in Sock : roomId \in joined[t]} \ {s},
                       user |-> s],
                      [ev |-> "callback", req |-> "join-room", to |-> {s},
                       users |-> dir[roomId]]>>
    /\ UNCHANGED <<maps, connected, transports, producers, consumers, subscriberResumed>>

\* socket.on("disconnecting"), followed by socket.io taking the closed socket
\* out of every room it had joined.
Disconnecting(s) ==
    /\ connected[s]
    /\ connected' = [connected EXCEPT ![s] = FALSE]
    /\ sockRooms' = [sockRooms EXCEPT ![s] = {}]
    /\ done' = NoDone
    /\ LET user == getUserBySocketId(s)
       IN IF user = Nil
          THEN /\ out' = <<>>
               /\ UNCHANGED <<userSocketMap, queue>>
          ELSE /\ out' = <<[ev |-> "user-disconnected",
                            to |-> BroadcastTo(s, users[user].roomId),
                            user |-> user]>>
               /\ userSocketMap' = SelectSeq(userSocketMap,
                                             LAMBDA u : users[u].socketId # s)
               /\ queue' = ArrayReplaced(queue)
    /\ UNCHANGED <<users, maps, rooms, transports, producers, consumers, subscriberResumed>>

\* The list `userSocketMap.map(user => user.socketId === s ? {...user, ...} : user)`
\* builds, position by position, with the heap holding the copies: a record of
\* socket s is replaced by a new object with the same field values (the Maps
\* and transports it refers to are shared with the old object).
RECURSIVE Rebuilt(_, _, _)
Rebuilt(arr, heap, s) ==
    IF arr = <<>> THEN [arr |-> <<>>, heap |-> heap]
    ELSE IF heap[Head(arr)].socketId = s
    THEN LET r == Rebuilt(Tail(arr), Append(heap, [heap[Head(arr)] EXCEPT !.typing = TRUE]), s)
         IN [arr |-> <<Len(heap) + 1>> \o r.arr, heap |-> r.heap]
    ELSE LET r == Rebuilt(Tail(arr), heap, s)
         IN [arr |-> <<Head(arr)>> \o r.arr, heap |-> r.heap]

\* socket.on(SocketEvent.TYPING_START): one of the presence updates that
\* rebuild the list (TYPING_PAUSE, USER_ONLINE, USER_OFFLINE and
\* ACTIVE_EDITOR_CHANGED do the same with another field)
TypingStart(s) ==
    /\ connected[s]
    /\ done' = NoDone
    /\ LET r == Rebuilt(userSocketMap, users, s)
           i == FindIndex(r.arr, LAMBDA o : r.heap[o].socketId = s)
       IN /\ userSocketMap' = r.arr
          /\ users' = r.heap
          /\ queue' = ArrayReplaced(queue)
          /\ out' = IF i = 0 THEN <<>>
                    ELSE <<[ev |-> "typing-start",
                            to |-> BroadcastTo(s, r.heap[r.arr[i]].roomId),
                            user |-> r.arr[i]]>>
    /\ UNCHANGED <<maps, connected, sockRooms, rooms, transports, producers, consumers,
                   subscriberResumed>>

\* ------------------------------------------------------- media engine
\* Every call into mediasoup is a request that the worker answers later; the
\* worker takes the requests of its channel in the order they were sent.  A
\* queue entry is one awaited call: op and tgt say what the engine is asked
\* to do, k is the continuation that runs when the answer arrives (the rest
\* of the async function that awaits it).
Request(op, tgt, k) == [op |-> op, tgt |-> tgt, k |-> k]

Callback(s, req, body) == [ev |-> "callback", req |-> req, to |-> {s}, body |-> body]
Error(msg) == [error |-> msg]

HeadIs(op) == queue # <<>> /\ Head(queue).op = op

\* mediasoupRouter.canConsume({producerId, rtpCapabilities}): the capabilities
\* name the kinds whose codec the client can decode.
canConsume(producerId, rtpCapabilities) ==
    producers[producerId].kind \in rtpCapabilities

\* A slip of the guard: stored capabilities are never noticed.
AlreadyJoinedNever(peer) == FALSE

\* if (peer.rtpCapabilities)
AlreadyJoined(peer) == users[peer].rtpCapabilities # Undefined

\* socket.on(SocketEvent.JOIN_ROUTER)
JoinRouter(s, rtpCapabilities) ==
    /\ connected[s]
    /\ done' = NoDone
    /\ LET peer == getUserBySocketId(s)
       IN IF peer = Nil
          THEN /\ out' = <<Callback(s, "join-router", Error("Peer not found"))>>
               /\ UNCHANGED users
          ELSE IF AlreadyJoined(peer)
          THEN /\ out' = <<Callback(s, "join-router",
                                    [success |-> TRUE, alreadyJoined |-> TRUE])>>
               /\ UNCHANGED users
          ELSE /\ users' = [users EXCEPT ![peer].rtpCapabilities = rtpCapabilities]
               /\ out' = <<Callback(s, "join-router", [success |-> TRUE])>>
    /\ UNCHANGED <<userSocketMap, maps, connected, sockRooms, rooms,
                   transports, producers, consumers, queue, subscriberResumed>>

\* A slip of the guard: the existing transport is never noticed.
TransportExistsNever(peer, dir) == FALSE

\* if (peer.producerTransport) / if (peer.consumerTransport)
TransportExists(peer, dir) == users[peer][dir] # Nil

AlreadyExistsMessage(dir) ==
    IF dir = "producerTransport" THEN "Producer transport already exists"
    ELSE "Consumer transport already exists"

\* socket.on(CREATE_PRODUCER_TRANSPORT) / socket.on(CREATE_CONSUMER_TRANSPORT),
\* up to `await createWebRtcTransport()`
CreateTransport(s, dir) ==
    /\ connected[s]
    /\ done' = NoDone
    /\ LET peer == getUserBySocketId(s)
       IN IF peer = Nil
          THEN /\ out' = <<Callback(s, dir, Error("Peer not found"))>>
               /\ UNCHANGED queue
          ELSE IF TransportExists(peer, dir)
          THEN /\ out' = <<Callback(s, dir, Error(AlreadyExistsMessage(dir)))>>
               /\ UNCHANGED queue
          ELSE /\ out' = <<>>
               /\ queue' = Append(queue,
                     Request("createWebRtcTransport", Nil,
                             [h |-> "createTransport", dir |-> dir, sock |-> s, peer |-> peer]))
    /\ UNCHANGED <<userSocketMap, users, maps, connected, sockRooms, rooms,
                   transports, producers, consumers, subscriberResumed>>

CreateProducerTransport(s) == CreateTransport(s, "producerTransport")
CreateConsumerTransport(s) == CreateTransport(s, "consumerTransport")

\* createWebRtcTransport: `await mediasoupRouter.createWebRtcTransport(...)` answered
EngineCreateWebRtcTransport(ok) ==
    /\ HeadIs("createWebRtcTransport")
    /\ done' = NoDone
    /\ LET k == Head(queue).k
           t == Len(transports) + 1
       IN IF ok
          THEN /\ transports' = Append(transports,
                                       [dir |-> k.dir, sock |-> k.sock, closed |-> FALSE])
               /\ queue' = Append(Tail(queue), Request("setMaxIncomingBitrate", t, k))
               /\ out' = <<>>
          ELSE /\ queue' = Tail(queue)
               /\ out' = <<Callback(k.sock, k.dir,
                              Error(IF k.dir = "producerTransport"
                                    THEN "Failed to create producer transport"
                                    ELSE "Failed to create consumer transport"))>>
               /\ UNCHANGED transports
    /\ UNCHANGED <<userSocketMap, users, maps, connected, sockRooms, rooms,
                   producers, consumers, subscriberResumed>>

\* A slip of createWebRtcTransport: without the inner try/catch the cap's error
\* reaches the outer catch and the handler's catch block.
CapErrorRethrown(ok) == ~ok

\* createWebRtcTransport's inner try/catch around setMaxIncomingBitrate: the error
\* is logged and never leaves the block
CapErrorEscapes(ok) == FALSE

\* createWebRtcTransport: `await transport.setMaxIncomingBitrate(...)` answered (an
\* error is only logged), then `peer.producerTransport = transport; callback(params)`
EngineSetMaxIncomingBitrate(ok) ==
    /\ HeadIs("setMaxIncomingBitrate")
    /\ done' = NoDone
    /\ LET k == Head(queue).k
           t == Head(queue).tgt
       IN /\ queue' = Tail(queue)
          /\ IF CapErrorEscapes(ok)
             THEN /\ out' = <<Callback(k.sock, k.dir,
                                 Error(IF k.dir = "producerTransport"
                                       THEN "Failed to create producer transport"
                                       ELSE "Failed to create consumer transport"))>>
                  /\ UNCHANGED users
             ELSE /\ users' = [users EXCEPT ![k.peer][k.dir] = t]
                  /\ out' = <<Callback(k.sock, k.dir,
                                 [id |-> t, iceServers |-> TRUE, bitrateCapped |-> ok])>>
    /\ UNCHANGED <<userSocketMap, maps, connected, sockRooms, rooms,
                   transports, producers, consumers, subscriberResumed>>

\* A slip of the connect handlers: the catch block answers like the try block.
ConnectReplyAlways(dir, ok) == [success |-> TRUE]

\* callback({ success: true }) after `await transport.connect(...)`, or the catch
\* block's callback({ error: "Failed to connect ... transport" })
ConnectReply(dir, ok) ==
    IF ok THEN [success |-> TRUE]
    ELSE Error(IF dir = "producerTransport" THEN "Failed to connect producer transport"
               ELSE "Failed to connect consumer transport")

\* socket.on(CONNECT_PRODUCER_TRANSPORT) / socket.on(CONNECT_CONSUMER_TRANSPORT),
\* up to `await peer.producerTransport.connect(...)`
ConnectTransport(s, dir) ==
    /\ connected[s]
    /\ done' = NoDone
    /\ LET peer == getUserBySocketId(s)
       IN IF peer = Nil \/ users[peer][dir] = Nil
          THEN /\ out' = <<Callback(s, "connect",
                              Error(IF dir = "producerTransport"
                                    THEN "Peer or producer transport not found"
                                    ELSE "Peer or consumer transport not found"))>>
               /\ UNCHANGED queue
          ELSE /\ out' = <<>>
               /\ queue' = Append(queue,
                     Request("connect", users[peer][dir],
                             [h |-> "connectTransport", dir |-> dir, sock |-> s]))
    /\ UNCHANGED <<userSocketMap, users, maps, connected, sockRooms, rooms,
                   transports, producers, consumers, subscriberResumed>>

\* the connect handlers after `await transport.connect(...)`
EngineConnect(ok) ==
    /\ HeadIs("connect")
    /\ done' = [h |-> "connectTransport", sock |-> Head(queue).k.sock, ok |-> ok]
    /\ queue' = Tail(queue)
    /\ out' = <<Callback(Head(queue).k.sock, "connect", ConnectReply(Head(queue).k.dir, ok))>>
    /\ UNCHANGED <<userSocketMap, users, maps, connected, sockRooms, rooms,
                   transports, producers, consumers, subscriberResumed>>

\* The kind-specific event PRODUCE and the toggles broadcast
StateChanged(kind) ==
    IF kind = "video" THEN "video-state-changed" ELSE "audio-state-changed"

\* A slip of the flag update: both flags are written.
SetFlagBoth(heap, peer, kind, v) ==
    [heap EXCEPT ![peer].hasVideo = v, ![peer].hasAudio = v]

\* peer.hasVideo = v / peer.hasAudio = v
SetFlag(heap, peer, kind, v) ==
    IF kind = "video" THEN [heap EXCEPT ![peer].hasVideo = v]
    ELSE [heap EXCEPT ![peer].hasAudio = v]

\* A slip of the validation: the claimed transport id is never compared.
TransportMismatchIgnored(peer, transportId) == FALSE

\* if (transportId && transportId !== peer.producerTransport.id)
TransportMismatch(peer, transportId) ==
    transportId # Nil /\ transportId # users[peer].producerTransport

\* socket.on(SocketEvent.PRODUCE), up to `await peer.producerTransport.produce(...)`
Produce(s, kind, transportId) ==
    /\ connected[s]
    /\ done' = NoDone
    /\ LET peer == getUserBySocketId(s)
       IN IF peer = Nil \/ users[peer].producerTransport = Nil
          THEN /\ out' = <<Callback(s, "produce",
                                    Error("Peer or producer transport not found"))>>
               /\ UNCHANGED queue
          ELSE IF TransportMismatch(peer, transportId)
          THEN /\ out' = <<Callback(s, "produce", Error("Invalid transport ID"))>>
               /\ UNCHANGED queue
          ELSE /\ out' = <<>>
               /\ queue' = Append(queue,
                     Request("produce", users[peer].producerTransport,
                             [h |-> "produce", sock |-> s, peer |-> peer, kind |-> kind]))
    /\ UNCHANGED <<userSocketMap, users, maps, connected, sockRooms, rooms,
                   transports, producers, consumers, subscriberResumed>>

\* `if (!peer.producers) peer.producers = new Map()` and the like: the Map the
\* field refers to afterwards, and the heap with it
MapOf(ref) == IF ref = Nil THEN Len(maps) + 1 ELSE ref
MapSet(ref, key) ==
    IF ref = Nil THEN Append(maps, <<key>>)
    ELSE IF key \in Range(maps[ref]) THEN maps
    ELSE [maps EXCEPT ![ref] = Append(@, key)]

\* PRODUCE after `await peer.producerTransport.produce(...)`
EngineProduce(ok) ==
    /\ HeadIs("produce")
    /\ done' = [h |-> "produce", sock |-> Head(queue).k.sock, kind |-> Head(queue).k.kind,
                producer |-> IF ok THEN Len(producers) + 1 ELSE Nil, ok |-> ok]
    /\ queue' = Tail(queue)
    /\ LET k == Head(queue).k
           p == Len(producers) + 1
           room == users[k.peer].roomId
       IN IF ok
          THEN /\ producers' = Append(producers,
                     [kind |-> k.kind, paused |-> FALSE, closed |-> FALSE,
                      transport |-> Head(queue).tgt, peerId |-> k.sock,
                      owner |-> k.peer])
               /\ maps' = MapSet(users[k.peer].producers, p)
               /\ users' = SetFlag([users EXCEPT ![k.peer].producers = MapOf(@)],
                                   k.peer, k.kind, TRUE)
               /\ out' = <<[ev |-> StateChanged(k.kind), to |-> BroadcastTo(k.sock, room),
                            socketId |-> k.sock, enabled |-> TRUE],
                           Callback(k.sock, "produce", [id |-> p])>>
          ELSE /\ out' = <<Callback(k.sock, "produce", Error("produce failed"))>>
               /\ UNCHANGED <<users, maps, producers>>
    /\ UNCHANGED <<userSocketMap, connected, sockRooms, rooms, transports, consumers,
                   subscriberResumed>>

\* ------------------------------------------------------------ consume
\* A slip of createConsumer: the canConsume check is left out.
CanCreateConsumerUnchecked(consumerPeer, producerId) ==
    /\ users[consumerPeer].consumerTransport # Nil
    /\ users[consumerPeer].rtpCapabilities # Undefined

\* createConsumer before its await: the consumer transport must exist and
\* the peer's capabilities must be set and accepted by canConsume; otherwise
\* it throws, and CONSUME logs the error and goes on to the next producer.
CanCreateConsumer(consumerPeer, producerId) ==
    /\ users[consumerPeer].consumerTransport # Nil
    /\ users[consumerPeer].rtpCapabilities # Undefined
    /\ canConsume(producerId, users[consumerPeer].rtpCapabilities)

\* A slip of the initial pause: every consumer is created paused.
InitiallyPausedAlways(kind) == TRUE

\* paused: producer.kind === 'video'
InitiallyPaused(kind) == kind = "video"

\* The positions `for (const producer of otherPeer.producers.values())` has still
\* to visit after position idx.  The iterator of a Map is live: an entry set
\* while the loop is suspended is visited too.
RemainingProducers(m, idx) == (idx + 1)..Len(maps[m])

\* CONSUME's loop from position idx on: the next createConsumer that reaches
\* its await, or callback({consumerDetailsArray}) when none does.
ConsumeLoop(q, k, idx, res) ==
    LET cands == {j \in RemainingProducers(k.m, idx) : CanCreateConsumer(k.peer, maps[k.m][j])}
        j == CHOOSE x \in cands : \A y \in cands : x <= y
    IN IF cands = {}
       THEN [queue |-> q,
             out |-> <<Callback(k.sock, "consume", [consumerDetailsArray |-> res])>>,
             done |-> [h |-> "consume", sock |-> k.sock, peer |-> k.peer,
                       other |-> k.other, snap |-> k.snap, res |-> res,
                       ready |-> k.ready, failed |-> k.failed]]
       ELSE [queue |-> Append(q, Request("consume", users[k.peer].consumerTransport,
                                [k EXCEPT !.idx = j, !.res = res,
                                          !.producer = maps[k.m][j]])),
             out |-> <<>>,
             done |-> NoDone]

\* A slip of the lookup: every record ever made is searched, departed ones too.
SourcePeerAnyRecord(peerId) ==
    IF \E o \in 1..Len(users) : users[o].socketId = peerId
    THEN CHOOSE o \in 1..Len(users) : users[o].socketId = peerId
    ELSE Nil

\* userSocketMap.find(user => user.socketId === peerId)
SourcePeer(peerId) ==
    LET i == FindIndex(userSocketMap, LAMBDA o : users[o].socketId = peerId)
    IN IF i = 0 THEN Nil ELSE userSocketMap[i]

\* socket.on(SocketEvent.CONSUME)
Consume(s, peerId) ==
    /\ connected[s]
    /\ LET peer == getUserBySocketId(s)
           otherPeer == SourcePeer(peerId)
       IN IF peer = Nil
          THEN /\ out' = <<Callback(s, "consume", Error("Peer not found"))>>
               /\ done' = NoDone
               /\ UNCHANGED queue
          ELSE IF otherPeer = Nil
          THEN /\ out' = <<Callback(s, "consume", Error("Source peer not found"))>>
               /\ done' = NoDone
               /\ UNCHANGED queue
          ELSE LET m == users[otherPeer].producers
                   \* snap, ready and failed only record the call for the
                   \* properties: what the source owned and whether the caller
                   \* could receive when the call began, and the producers for
                   \* which the engine's consume threw
                   k == [h |-> "consume", sock |-> s, peer |-> peer, other |-> otherPeer,
                         m |-> m, idx |-> 0, producer |-> Nil, res |-> <<>>,
                         snap |-> IF m = Nil THEN {} ELSE Range(maps[m]),
                         ready |-> /\ users[peer].consumerTransport # Nil
                                   /\ users[peer].rtpCapabilities # Undefined,
                         failed |-> {}]
                   r == IF m = Nil \/ maps[m] = <<>>
                        THEN [queue |-> queue,
                              out |-> <<Callback(s, "consume", [consumerDetailsArray |-> <<>>])>>,
                              done |-> [h |-> "consume", sock |-> s, peer |-> peer,
                                        other |-> otherPeer, snap |-> {}, res |-> <<>>,
                                        ready |-> k.ready, failed |-> {}]]
                        ELSE ConsumeLoop(queue, k, 0, <<>>)
               IN /\ queue' = r.queue
                  /\ out' = r.out
                  /\ done' = r.done
    /\ UNCHANGED <<userSocketMap, users, maps, connected, sockRooms, rooms,
                   transports, producers, consumers, subscriberResumed>>

\* A slip of CONSUME's loop: the try block is around the loop, so a
\* createConsumer that throws ends it.
AfterCreateConsumerOuterTry(k, ok) == IF ok THEN k.idx ELSE Len(maps[k.m])

\* Where CONSUME's loop goes on after createConsumer has returned or thrown:
\* the try block is inside the loop, so in both cases after the producer just
\* tried.
AfterCreateConsumer(k, ok) == k.idx

\* createConsumer after `await consumerTransport.consume(...)`, then the rest of
\* CONSUME's loop
EngineConsume(ok) ==
    /\ HeadIs("consume")
    /\ LET k == Head(queue).k
           c == Len(consumers) + 1
           kind == producers[k.producer].kind
           details == [id |-> c, producerId |-> k.producer, kind |-> kind,
                       paused |-> InitiallyPaused(kind)]
           r == ConsumeLoop(Tail(queue),
                            [k EXCEPT !.failed = IF ok THEN @ ELSE @ \cup {k.producer}],
                            AfterCreateConsumer(k, ok),
                            IF ok THEN Append(k.res, details) ELSE k.res)
       IN /\ IF ok
             THEN /\ consumers' = Append(consumers,
                        [producerId |-> k.producer, kind |-> kind,
                         paused |-> InitiallyPaused(kind), closed |-> FALSE,
                         transport |-> Head(queue).tgt, owner |-> k.peer])
                  /\ maps' = MapSet(users[k.peer].consumers, c)
                  /\ users' = [users EXCEPT ![k.peer].consumers = MapOf(@)]
             ELSE UNCHANGED <<consumers, maps, users>>
          /\ queue' = r.queue
          /\ out' = r.out
          /\ done' = r.done
    /\ UNCHANGED <<userSocketMap, connected, sockRooms, rooms, transports, producers,
                   subscriberResumed>>

\* A slip of the ownership check: any consumer of the server is accepted.
HasConsumerAnywhere(peer, consumerId) == consumerId \in 1..Len(consumers)

\* peer.consumers && peer.consumers.has(consumerId)
HasConsumer(peer, consumerId) ==
    /\ users[peer].consumers # Nil
    /\ consumerId \in Range(maps[users[peer].consumers])

\* socket.on(SocketEvent.RESUME_CONSUMER), up to `await consumer.resume()`
ResumeConsumer(s, consumerId) ==
    /\ connected[s]
    /\ done' = NoDone
    /\ LET peer == getUserBySocketId(s)
       IN IF peer = Nil
          THEN /\ out' = <<Callback(s, "resumeConsumer", Error("Peer not found"))>>
               /\ UNCHANGED queue
          ELSE IF ~HasConsumer(peer, consumerId)
          THEN /\ out' = <<Callback(s, "resumeConsumer", Error("Consumer not found"))>>
               /\ UNCHANGED queue
          ELSE /\ out' = <<>>
               /\ queue' = Append(queue, Request("consumer.resume", consumerId,
                                [h |-> "resumeConsumer", sock |-> s,
                                 wasPaused |-> consumers[consumerId].paused]))
    /\ UNCHANGED <<userSocketMap, users, maps, connected, sockRooms, rooms,
                   transports, producers, consumers, subscriberResumed>>

\* ------------------------------------------------ pause / resume cascade
\* The consumers, in the consumer Map of a registered peer, whose source is p
\* (history carried by a cascade: what depended on the producer when it was called)
SourcedFrom(p) ==
    {c \in 1..Len(consumers) :
        /\ consumers[c].producerId = p
        /\ \E i \in 1..Len(userSocketMap) :
              LET m == users[userSocketMap[i]].consumers
              IN m # Nil /\ c \in Range(maps[m])}

\* pauseProducer(producer) / resumeProducer(producer) up to `await producer.pause()`
\* / `await producer.resume()`: the request the call leaves with the engine
\* (snap, idle and was only record the call for the properties: the consumers
\* sourced from the producer, whether the engine was idle, the paused flags of
\* the producer and of those consumers and the owner's hasVideo / hasAudio, all
\* as the call began)
CascadeRequest(pause, p) ==
    Request(IF pause THEN "producer.pause" ELSE "producer.resume", p,
            [h |-> IF pause THEN "pauseProducer" ELSE "resumeProducer",
             producer |-> p, snap |-> SourcedFrom(p),
             idle |-> queue = <<>>,
             was |-> [producer |-> producers[p].paused,
                      consumers |-> [c \in SourcedFrom(p) |-> consumers[c].paused],
                      flag |-> LET o == getUserBySocketId(producers[p].peerId)
                               IN IF producers[p].kind = "video" THEN users[o].hasVideo
                                  ELSE users[o].hasAudio]])

\* A slip of the cascade: no consumer is looked for.
CascadeMatchesNone(arr, ui, ci, p) == {}

\* The positions (user, entry) of `for (const user of userSocketMap)` /
\* `for (const [consumerId, consumer] of user.consumers.entries())` that lie after
\* position (ui, ci) and hold a consumer of producer p
CascadeMatches(arr, ui, ci, p) ==
    {pos \in UNION {{<<u, c>> : c \in 1..(IF users[arr[u]].consumers = Nil THEN 0
                                          ELSE Len(maps[users[arr[u]].consumers]))}
                    : u \in 1..Len(arr)} :
        /\ pos[1] > ui \/ (pos[1] = ui /\ pos[2] > ci)
        /\ consumers[maps[users[arr[pos[1]]].consumers][pos[2]]].producerId = p}

\* The cascade's loops from position (ui, ci) on: the next `await consumer.pause()`
\* / `await consumer.resume()`, or the end of the helper
CascadeLoop(q, k, ui, ci) ==
    LET ms == CascadeMatches(k.arr, ui, ci, k.producer)
        pos == CHOOSE x \in ms : \A y \in ms :
                   x[1] < y[1] \/ (x[1] = y[1] /\ x[2] <= y[2])
        c == maps[users[k.arr[pos[1]]].consumers][pos[2]]
    IN IF ms = {}
       THEN [queue |-> q,
             done |-> [h |-> k.h, producer |-> k.producer, snap |-> k.snap, ok |-> TRUE,
                       failed |-> Nil, idle |-> k.idle, was |-> k.was]]
       ELSE [queue |-> Append(q,
                Request(IF k.h = "pauseProducer" THEN "consumer.pause" ELSE "consumer.resume",
                        c, [k EXCEPT !.ui = pos[1], !.ci = pos[2]])),
             done |-> NoDone]

\* A slip of pause / resume: the flag is flipped instead of set.
FlipPaused(objs, id, paused) == [objs EXCEPT ![id].paused = ~@]

\* What an answered pause() / resume() does to the object's paused flag
SetPaused(objs, id, paused) == [objs EXCEPT ![id].paused = paused]

\* pauseProducer / resumeProducer after `await producer.pause()` / `await
\* producer.resume()`; an error is caught by the helper's only try block
EngineProducerPauseResume(ok) ==
    /\ HeadIs("producer.pause") \/ HeadIs("producer.resume")
    /\ LET k == Head(queue).k
           p == Head(queue).tgt
           k2 == [h |-> k.h, producer |-> p, snap |-> k.snap, idle |-> k.idle, was |-> k.was,
                  arr |-> userSocketMap, arrLive |-> TRUE, ui |-> 0, ci |-> 0]
           r == CascadeLoop(Tail(queue), k2, 0, 0)
       IN IF ok
          THEN /\ producers' = SetPaused(producers, p, Head(queue).op = "producer.pause")
               /\ queue' = r.queue
               /\ done' = r.done
          ELSE /\ queue' = Tail(queue)
               /\ done' = [h |-> k.h, producer |-> p, snap |-> k.snap, ok |-> FALSE,
                            failed |-> Nil, idle |-> k.idle, was |-> k.was]
               /\ UNCHANGED producers
    /\ out' = <<>>
    /\ UNCHANGED <<userSocketMap, users, maps, connected, sockRooms, rooms,
                   transports, consumers, subscriberResumed>>

\* `await consumer.pause()` / `await consumer.resume()` answered, for each of its
\* three callers: RESUME_CONSUMER, the cascade of pauseProducer / resumeProducer
\* (which then emits 'producerpause' / 'producerresume' on the consumer, whose
\* handler pauses / resumes the consumer once more without awaiting it), and
\* that handler
EngineConsumerPauseResume(ok) ==
    /\ HeadIs("consumer.pause") \/ HeadIs("consumer.resume")
    /\ LET k == Head(queue).k
           c == Head(queue).tgt
           op == Head(queue).op
           forward == Request(op, c, [h |-> IF op = "consumer.pause" THEN "producerpause"
                                            ELSE "producerresume"])
       IN /\ IF ok
             THEN consumers' = SetPaused(consumers, c, op = "consumer.pause")
             ELSE UNCHANGED consumers
          /\ IF k.h = "resumeConsumer"
             THEN /\ queue' = Tail(queue)
                  /\ out' = <<Callback(k.sock, "resumeConsumer",
                                 IF ok THEN [success |-> TRUE]
                                 ELSE Error("Failed to resume consumer"))>>
                  /\ done' = IF ok THEN [h |-> "resumeConsumer", sock |-> k.sock,
                                         consumer |-> c, wasPaused |-> k.wasPaused]
                             ELSE NoDone
                  /\ subscriberResumed' = IF ok THEN subscriberResumed \cup {c}
                                          ELSE subscriberResumed
             ELSE IF k.h \in {"pauseProducer", "resumeProducer"}
             THEN LET r == CascadeLoop(Append(Tail(queue), forward), k, k.ui, k.ci)
                  IN /\ queue' = IF ok THEN r.queue ELSE Tail(queue)
                     /\ done' = IF ok THEN r.done
                                ELSE [h |-> k.h, producer |-> k.producer,
                                      snap |-> k.snap, ok |-> FALSE, failed |-> c,
                                      idle |-> k.idle, was |-> k.was]
                     /\ out' = <<>>
                     /\ UNCHANGED subscriberResumed
             ELSE /\ queue' = Tail(queue)
                  /\ out' = <<>>
                  /\ done' = NoDone
                  /\ UNCHANGED subscriberResumed
    /\ UNCHANGED <<userSocketMap, users, maps, connected, sockRooms, rooms,
                   transports, producers>>

\* The requests the toggle's loop over the peer's producers of one kind leaves
\* with the engine: one pauseProducer / resumeProducer call each, not awaited
RECURSIVE ToggleRequests(_, _, _)
ToggleRequests(ps, kind, enabled) ==
    IF ps = <<>> THEN <<>>
    ELSE (IF producers[Head(ps)].kind = kind
          THEN <<CascadeRequest(~enabled, Head(ps))>> ELSE <<>>)
         \o ToggleRequests(Tail(ps), kind, enabled)

\* A slip of the toggles: the refusal is announced to the other sockets as a change.
ToggleRefusalAnnounced(s, kind) ==
    <<[ev |-> StateChanged(kind), to |-> Sock \ {s}, socketId |-> s, enabled |-> FALSE],
      Callback(s, StateChanged(kind), Error("User not found"))>>

\* `callback({ error: "User not found" }); return`
ToggleRefusal(s, kind) == <<Callback(s, StateChanged(kind), Error("User not found"))>>

\* socket.on(SocketEvent.TOGGLE_VIDEO) / socket.on(SocketEvent.TOGGLE_AUDIO)
Toggle(s, kind, enabled) ==
    /\ connected[s]
    /\ done' = NoDone
    /\ LET user == getUserBySocketId(s)
       IN IF user = Nil \/ users[user].producers = Nil
          THEN /\ out' = ToggleRefusal(s, kind)
               /\ UNCHANGED <<users, queue>>
          ELSE /\ queue' = queue \o ToggleRequests(maps[users[user].producers], kind, enabled)
               /\ users' = SetFlag(users, user, kind, enabled)
               /\ out' = <<[ev |-> StateChanged(kind),
                            to |-> BroadcastTo(s, users[user].roomId),
                            socketId |-> s, enabled |-> enabled],
                           Callback(s, StateChanged(kind), [success |-> TRUE])>>
    /\ UNCHANGED <<userSocketMap, maps, connected, sockRooms, rooms,
                   transports, producers, consumers, subscriberResumed>>

ToggleVideo(s, enabled) == Toggle(s, "video", enabled)
ToggleAudio(s, enabled) == Toggle(s, "audio", enabled)

\* ------------------------------------------------------------ closure
\* The server never calls close() itself: a transport closes when the engine
\* closes it (the router goes with a worker that died).  mediasoup then closes
\* the producers and consumers of the transport and the consumers sourced from
\* those producers, and emits 'transportclose' / 'producerclose' and the
\* observer's 'close' on each of them, synchronously.
ProducersOn(ts) ==
    {p \in 1..Len(producers) : ~producers[p].closed /\ producers[p].transport \in ts}

DependentConsumers(ts) ==
    {c \in 1..Len(consumers) :
        /\ ~consumers[c].closed
        /\ consumers[c].transport \in ts \/ consumers[c].producerId \in ProducersOn(ts)}

\* producer.observer.on('close') / producer.on('transportclose'):
\* peer.producers?.delete(producer.id), peer being the record PRODUCE looked up
\* before its await.  The keys these handlers delete from Map m.
ProducerKeys(m, ps) == {p \in ps : users[producers[p].owner].producers = m}

\* A slip of createConsumer: the consumer's close handlers are not installed.
ConsumerKeysNone(m, cs) == {}

\* consumer.observer.on('close') / consumer.on('transportclose') /
\* consumer.on('producerclose'): consumerPeer.consumers?.delete(consumer.id),
\* consumerPeer being the record CONSUME looked up before its loop.  The keys
\* these handlers delete from Map m.
ConsumerKeys(m, cs) == {c \in cs : users[consumers[c].owner].consumers = m}

\* Map.prototype.delete on a Map that a loop suspended at an await is iterating:
\* the iterator goes on with the entries that follow its position, so a
\* position counts the entries before it that are left.
Kept(m, del, n) == Cardinality({j \in 1..n : maps[m][j] \notin del})

\* The suspended loops of the awaited calls, after the keys del[m] have been
\* deleted from every Map m: CONSUME's loop over otherPeer.producers and the
\* cascade's loop over user.consumers
AfterDelete(q, del) ==
    [i \in 1..Len(q) |->
        LET k == q[i].k
        IN IF k.h = "consume"
           THEN [q[i] EXCEPT !.k.idx = Kept(k.m, del[k.m], @)]
           ELSE IF k.h \in {"pauseProducer", "resumeProducer"} /\ "ui" \in DOMAIN k
                   /\ k.ui > 0 /\ users[k.arr[k.ui]].consumers # Nil
           THEN LET m == users[k.arr[k.ui]].consumers
                IN [q[i] EXCEPT !.k.ci = Kept(m, del[m], @)]
           ELSE q[i]]

\* The engine closes the transports ts
EngineClosed(ts) ==
    /\ ts # {}
    /\ \A t \in ts : ~transports[t].closed
    /\ LET ps == ProducersOn(ts)
           cs == DependentConsumers(ts)
           del == [m \in 1..Len(maps) |-> ProducerKeys(m, ps) \cup ConsumerKeys(m, cs)]
       IN /\ transports' = [t \in 1..Len(transports) |->
                                IF t \in ts THEN [transports[t] EXCEPT !.closed = TRUE]
                                ELSE transports[t]]
          /\ producers' = [p \in 1..Len(producers) |->
                               IF p \in ps THEN [producers[p] EXCEPT !.closed = TRUE]
                               ELSE producers[p]]
          /\ consumers' = [c \in 1..Len(consumers) |->
                               IF c \in cs THEN [consumers[c] EXCEPT !.closed = TRUE]
                               ELSE consumers[c]]
          /\ maps' = [m \in 1..Len(maps) |->
                          SelectSeq(maps[m], LAMBDA x : x \notin del[m])]
          /\ queue' = AfterDelete(queue, del)
          /\ done' = [h |-> "close", transports |-> ts, producers |-> ps, consumers |-> cs]
    /\ out' = <<>>
    /\ UNCHANGED <<userSocketMap, users, connected, sockRooms, rooms, subscriberResumed>>

\* The engine refuses every call on a closed transport, producer or consumer
HeadOpen ==
    LET r == Head(queue)
    IN IF queue = <<>> THEN TRUE
       ELSE IF r.op \in {"produce", "setMaxIncomingBitrate"} THEN ~transports[r.tgt].closed
       ELSE IF r.op = "consume"
       THEN ~transports[r.tgt].closed /\ ~producers[r.k.producer].closed
       ELSE IF r.op \in {"producer.pause", "producer.resume"} THEN ~producers[r.tgt].closed
       ELSE IF r.op \in {"consumer.pause", "consumer.resume"} THEN ~consumers[r.tgt].closed
       ELSE TRUE

\* ------------------------------------------------- the media specification
NameOf(s) == IF s = 1 THEN "sam" ELSE "kim"
CapsInputs == {{"audio"}, {"audio", "video"}}

Pending(op) == Cardinality({i \in 1..Len(queue) : queue[i].op = op})

Accepting == Len(queue) < MaxQueue

\* ---------------------------------------- the transport specification
\* join, disconnect and the creation of the two transports of each peer
Join(s) == getUserBySocketId(s) = Nil /\ JoinRequest(s, NameOf(s), "r1")

\* a step of a socket handler or of an engine answer, which is, or is not, one of
\* the MaxControl resumeConsumer / toggle requests; none of them touches the process
\* or the browser
Quiet == UNCHANGED <<requests, process, client>>
Counted == requests < MaxControl /\ requests' = requests + 1 /\ UNCHANGED <<process, client>>

TransportSlot ==
    /\ Accepting
    /\ Len(transports) + Pending("createWebRtcTransport") < MaxTransports

NextTransport ==
    \/ Quiet /\ \E s \in MediaSock : Join(s)
    \/ Quiet /\ \E s \in MediaSock : Disconnecting(s)
    \/ Quiet /\ \E s \in MediaSock : TransportSlot /\ CreateProducerTransport(s)
    \/ Quiet /\ \E s \in MediaSock : TransportSlot /\ CreateConsumerTransport(s)
    \/ Quiet /\ \E ok \in BOOLEAN : EngineCreateWebRtcTransport(ok)
    \/ Quiet /\ \E ok \in BOOLEAN : EngineSetMaxIncomingBitrate(ok)

SpecTransport == Init /\ [][NextTransport]_vars

\* ------------------------------------------ the consume specification
\* Socket 1 is the source peer: it sets up a producer transport and produces.
\* Socket 2 is the subscriber: it negotiates capabilities, sets up a consumer
\* transport and consumes from socket 1.  Requests that would only be turned
\* down (a second join-router, a second transport, a produce without a
\* transport) are left out, and so are engine failures during the set-up.
Source == CHOOSE s \in MediaSock : \A t \in MediaSock : s <= t
Sink == CHOOSE s \in MediaSock : s # Source
Registered(s) == getUserBySocketId(s) # Nil
HasTransport(s, dir) == Registered(s) /\ TransportExists(getUserBySocketId(s), dir)
NoTransportYet(s, dir) ==
    /\ Registered(s)
    /\ ~HasTransport(s, dir)
    /\ \A i \in 1..Len(queue) :
          queue[i].k.h = "createTransport" => ~(queue[i].k.sock = s /\ queue[i].k.dir = dir)

ProducerSlot == Accepting /\ Len(producers) + Pending("produce") < MaxProducers
ConsumerSlot == Accepting /\ Len(consumers) + Pending("consume") < MaxConsumers

SetUp(capsInputs) ==
    \/ Quiet /\ \E s \in MediaSock : Join(s)
    \/ Quiet /\ \E caps \in capsInputs :
          /\ Registered(Sink) /\ users[getUserBySocketId(Sink)].rtpCapabilities = Undefined
          /\ JoinRouter(Sink, caps)
    \/ Quiet /\ NoTransportYet(Source, "producerTransport") /\ TransportSlot
          /\ CreateProducerTransport(Source)
    \/ Quiet /\ NoTransportYet(Sink, "consumerTransport") /\ TransportSlot
          /\ CreateConsumerTransport(Sink)
    \/ Quiet /\ EngineCreateWebRtcTransport(TRUE)
    \/ Quiet /\ EngineSetMaxIncomingBitrate(TRUE)

NextConsume ==
    \/ SetUp(CapsInputs)
    \/ Quiet /\ \E s \in MediaSock : Disconnecting(s)
    \/ Quiet /\ \E kind \in Kinds : HasTransport(Source, "producerTransport") /\ ProducerSlot
          /\ Produce(Source, kind, Nil)
    \/ Quiet /\ Registered(Sink) /\ Registered(Source) /\ ConsumerSlot /\ Consume(Sink, Source)
    \/ Quiet /\ \E ok \in BOOLEAN : EngineProduce(ok)
    \/ Quiet /\ \E ok \in BOOLEAN : EngineConsume(ok)

SpecConsume == Init /\ [][NextConsume]_vars

\* ------------------------------------------ the cascade specification
\* The same peers, with the subscriber's resumeConsumer and the source's toggles.
\* The subscriber negotiates both kinds, and a consume is accepted while the
\* consumers it can create stay within MaxConsumers.
ConsumerRoom ==
    /\ ConsumerSlot
    /\ Len(consumers) + Len(producers) + Pending("produce") <= MaxConsumers

NextCascade ==
    \/ SetUp({Kinds})
    \/ Quiet /\ \E kind \in Kinds : HasTransport(Source, "producerTransport") /\ ProducerSlot
          /\ Produce(Source, kind, Nil)
    \/ Quiet /\ Registered(Sink) /\ Registered(Source) /\ ConsumerRoom /\ Consume(Sink, Source)
    \/ Quiet /\ EngineProduce(TRUE)
    \/ Quiet /\ EngineConsume(TRUE)
    \/ Quiet /\ \E ok \in BOOLEAN : EngineProducerPauseResume(ok)
    \/ Quiet /\ \E ok \in BOOLEAN : EngineConsumerPauseResume(ok)
    \/ Counted /\ Accepting /\ \E c \in 1..Len(consumers) : ResumeConsumer(Sink, c)
    \/ Counted /\ Accepting /\ \E enabled \in BOOLEAN : ToggleVideo(Source, enabled)
    \/ Counted /\ Accepting /\ \E enabled \in BOOLEAN : ToggleAudio(Source, enabled)

SpecCascade == Init /\ [][NextCascade]_vars

\* ------------------------------------------- the produce specification
\* The producer transport of socket 1 and produce requests of both
\* connections, with any claimed transport id, while presence updates and
\* disconnects go on
TransportIds == 0..2
NextProduce ==
    \/ Quiet /\ \E s \in MediaSock : Join(s)
    \/ Quiet /\ \E s \in MediaSock : Disconnecting(s)
    \/ Quiet /\ Len(users) < MaxObj /\ TypingStart(Source)
    \/ Quiet /\ NoTransportYet(Source, "producerTransport") /\ TransportSlot
          /\ CreateProducerTransport(Source)
    \/ Quiet /\ EngineCreateWebRtcTransport(TRUE)
    \/ Quiet /\ EngineSetMaxIncomingBitrate(TRUE)
    \/ Quiet /\ \E s \in MediaSock, kind \in Kinds, transportId \in TransportIds :
          ProducerSlot /\ Produce(s, kind, transportId)
    \/ Quiet /\ \E ok \in BOOLEAN : EngineProduce(ok)

SpecProduce == Init /\ [][NextProduce]_vars

\* ------------------------------------------- the join-router specification
\* join-router requests of both connections, with capabilities or without
NextRouter ==
    \/ Quiet /\ \E s \in MediaSock : Join(s)
    \/ Quiet /\ \E s \in MediaSock : Disconnecting(s)
    \/ Quiet /\ \E s \in MediaSock : Len(users) < MaxObj /\ TypingStart(s)
    \/ Quiet /\ \E s \in MediaSock, caps \in CapsInputs \cup {Undefined} :
          JoinRouter(s, caps)

SpecRouter == Init /\ [][NextRouter]_vars

\* ------------------------------------------- the closure specification
\* The source and the subscriber as before, a presence update of either once
\* the first produce has been sent, and the engine closing transports; the
\* engine accepts a call exactly when what it is about is still open.
MediaBegun == Pending("produce") + Len(producers) + Len(consumers) > 0

NextClose ==
    \/ SetUp({Kinds})
    \/ Quiet /\ Len(users) < MaxObj /\ MediaBegun /\ \E s \in MediaSock : TypingStart(s)
    \/ Quiet /\ \E kind \in Kinds : HasTransport(Source, "producerTransport") /\ ProducerSlot
          /\ Produce(Source, kind, Nil)
    \/ Quiet /\ Registered(Sink) /\ Registered(Source) /\ ConsumerSlot /\ Consume(Sink, Source)
    \/ Quiet /\ EngineProduce(HeadOpen)
    \/ Quiet /\ EngineConsume(HeadOpen)
    \/ Quiet /\ \E ts \in SUBSET (1..Len(transports)) : EngineClosed(ts)

SpecClose == Init /\ [][NextClose]_vars

\* ------------------------------------- the engine-failure specification
\* The source and the subscriber as before, with connect-transport and
\* resumeConsumer, and an engine that may refuse any call of the set-up.
Directions == {"producerTransport", "consumerTransport"}

NextFailure ==
    \/ Quiet /\ \E s \in MediaSock : Join(s)
    \/ Quiet /\ Registered(Sink) /\ users[getUserBySocketId(Sink)].rtpCapabilities = Undefined
          /\ JoinRouter(Sink, Kinds)
    \/ Quiet /\ NoTransportYet(Source, "producerTransport") /\ TransportSlot
          /\ CreateProducerTransport(Source)
    \/ Quiet /\ NoTransportYet(Sink, "consumerTransport") /\ TransportSlot
          /\ CreateConsumerTransport(Sink)
    \/ Quiet /\ \E ok \in BOOLEAN : EngineCreateWebRtcTransport(ok)
    \/ Quiet /\ \E ok \in BOOLEAN : EngineSetMaxIncomingBitrate(ok)
    \/ Counted /\ Accepting /\ \E s \in MediaSock, dir \in Directions : ConnectTransport(s, dir)
    \/ Quiet /\ \E ok \in BOOLEAN : EngineConnect(ok)
    \/ Quiet /\ \E kind \in Kinds : HasTransport(Source, "producerTransport") /\ ProducerSlot
          /\ Produce(Source, kind, Nil)
    \/ Quiet /\ \E ok \in BOOLEAN : EngineProduce(ok)
    \/ Quiet /\ Registered(Sink) /\ Registered(Source) /\ ConsumerSlot /\ Consume(Sink, Source)
    \/ Quiet /\ EngineConsume(TRUE)
    \/ Counted /\ Accepting /\ \E c \in 1..Len(consumers) : ResumeConsumer(Sink, c)
    \/ Quiet /\ \E ok \in BOOLEAN : EngineConsumerPauseResume(ok)

SpecFailure == Init /\ [][NextFailure]_vars

\* ------------------------------------------- the lookup specification
\* The consume specification with consume sent by either socket and naming any
\* socket, registered or not.
NextLookup ==
    \/ SetUp({Kinds})
    \/ Quiet /\ \E s \in MediaSock : Disconnecting(s)
    \/ Quiet /\ \E kind \in Kinds : HasTransport(Source, "producerTransport") /\ ProducerSlot
          /\ Produce(Source, kind, Nil)
    \/ Quiet /\ EngineProduce(TRUE)
    \/ Quiet /\ \E s \in MediaSock, peerId \in Sock : ConsumerSlot /\ Consume(s, peerId)
    \/ Quiet /\ EngineConsume(TRUE)

SpecLookup == Init /\ [][NextLookup]_vars

\* ------------------------------------------ the scenario specification
\* The source joins, creates its producer transport and produces both kinds;
\* the subscriber joins, negotiates, creates its consumer transport, then
\* consumes once the source owns both producers, and resumes its video consumer; then
\* the source turns its video off.  Each client waits for the answer to a
\* media request before it sends the next, and the engine accepts every call.
Idle == queue = <<>>

VideoConsumers == {c \in 1..Len(consumers) : consumers[c].kind = "video"}

NextScenario ==
    \/ SetUp({Kinds})
    \/ Quiet /\ Idle /\ \E kind \in Kinds :
          /\ HasTransport(Source, "producerTransport")
          /\ \A p \in 1..Len(producers) : producers[p].kind # kind
          /\ Produce(Source, kind, Nil)
    \/ Quiet /\ EngineProduce(TRUE)
    \/ Quiet /\ Idle /\ Registered(Sink) /\ Registered(Source)
          /\ HasTransport(Sink, "consumerTransport")
          /\ users[getUserBySocketId(Sink)].rtpCapabilities # Undefined
          /\ Len(producers) = 2 /\ consumers = <<>> /\ Consume(Sink, Source)
    \/ Quiet /\ EngineConsume(TRUE)
    \/ Counted /\ Idle /\ \E c \in VideoConsumers \ subscriberResumed : ResumeConsumer(Sink, c)
    \/ Counted /\ Idle /\ VideoConsumers # {} /\ VideoConsumers \subseteq subscriberResumed
          /\ users[getUserBySocketId(Source)].hasVideo /\ ToggleVideo(Source, FALSE)
    \/ Quiet /\ EngineProducerPauseResume(TRUE)
    \/ Quiet /\ EngineConsumerPauseResume(TRUE)

SpecScenario == Init /\ [][NextScenario]_vars

\* ---------------------------------- the resume-consumer specification
\* The same without presence updates, and resumeConsumer from either socket
\* for any consumer id, known or not.
ConsumerIds == 1..MaxConsumers

NextResume ==
    \/ SetUp({Kinds})
    \/ Quiet /\ \E kind \in Kinds : HasTransport(Source, "producerTransport") /\ ProducerSlot
          /\ Produce(Source, kind, Nil)
    \/ Quiet /\ Registered(Sink) /\ Registered(Source) /\ ConsumerSlot /\ Consume(Sink, Source)
    \/ Quiet /\ EngineProduce(HeadOpen)
    \/ Quiet /\ EngineConsume(HeadOpen)
    \/ Quiet /\ \E ok \in BOOLEAN : (ok => HeadOpen) /\ EngineConsumerPauseResume(ok)
    \/ Quiet /\ \E ts \in SUBSET (1..Len(transports)) : EngineClosed(ts)
    \/ Counted /\ Accepting /\ \E s \in MediaSock, c \in ConsumerIds : ResumeConsumer(s, c)

SpecResume == Init /\ [][NextResume]_vars

\* ------------------------------------------------ the toggle specification
\* The source's toggles of either kind, sent at any moment so that their cascades
\* overlap, with an engine that accepts every call; the source has produced and
\* the subscriber has resumed its consumers before the source's first toggle
NextToggle ==
    \/ SetUp({Kinds})
    \/ Quiet /\ requests = 0
          /\ \E kind \in Kinds : HasTransport(Source, "producerTransport") /\ ProducerSlot
                /\ Produce(Source, kind, Nil)
    \/ Quiet /\ Registered(Sink) /\ Registered(Source) /\ ConsumerRoom /\ Consume(Sink, Source)
    \/ Quiet /\ EngineProduce(TRUE)
    \/ Quiet /\ EngineConsume(TRUE)
    \/ Quiet /\ requests = 0 /\ Accepting
          /\ \E c \in 1..Len(consumers) \ subscriberResumed : ResumeConsumer(Sink, c)
    \/ Counted /\ Pending("produce") = 0
          /\ \E kind \in Kinds, enabled \in BOOLEAN : Toggle(Source, kind, enabled)
    \/ Quiet /\ EngineProducerPauseResume(TRUE)
    \/ Quiet /\ EngineConsumerPauseResume(TRUE)

SpecToggle == Init /\ [][NextToggle]_vars

\* ------------------------------------------------- the rooms specification
\* The two peers join any room each, set up their transports, and the
\* subscriber consumes from the source; the engine accepts every call
NextRooms ==
    \/ Quiet /\ \E s \in MediaSock, r \in Rooms :
          getUserBySocketId(s) = Nil /\ JoinRequest(s, NameOf(s), r)
    \/ Quiet /\ Registered(Sink) /\ users[getUserBySocketId(Sink)].rtpCapabilities = Undefined
          /\ JoinRouter(Sink, Kinds)
    \/ Quiet /\ NoTransportYet(Source, "producerTransport") /\ TransportSlot
          /\ CreateProducerTransport(Source)
    \/ Quiet /\ NoTransportYet(Sink, "consumerTransport") /\ TransportSlot
          /\ CreateConsumerTransport(Sink)
    \/ Quiet /\ EngineCreateWebRtcTransport(TRUE)
    \/ Quiet /\ EngineSetMaxIncomingBitrate(TRUE)
    \/ Quiet /\ \E kind \in Kinds : HasTransport(Source, "producerTransport") /\ ProducerSlot
          /\ Produce(Source, kind, Nil)
    \/ Quiet /\ EngineProduce(TRUE)
    \/ Quiet /\ Registered(Sink) /\ Registered(Source) /\ ConsumerSlot /\ Consume(Sink, Source)
    \/ Quiet /\ EngineConsume(TRUE)

SpecRooms == Init /\ [][NextRooms]_vars

\* ------------------------------------------------ the worker specification
\* A slip of the "died" handler: it logs and arms no timer.
OnDiedLogOnly(p) == p

\* worker.on("died"): `setTimeout(() => process.exit(1), 2000)`
OnDied(p) == [p EXCEPT !.exitTimer = TRUE]

AllClosed(objs) == [i \in 1..Len(objs) |-> [objs[i] EXCEPT !.closed = TRUE]]

\* The mediasoup worker dies: the engine closes every router, transport, producer
\* and consumer, and emits "died"
WorkerDied ==
    /\ ~process.workerDied
    /\ process' = OnDied([process EXCEPT !.workerDied = TRUE])
    /\ transports' = AllClosed(transports)
    /\ producers' = AllClosed(producers)
    /\ consumers' = AllClosed(consumers)
    /\ out' = <<>>
    /\ done' = NoDone
    /\ UNCHANGED <<userSocketMap, users, maps, connected, sockRooms, rooms, queue,
                   subscriberResumed, requests, client>>

\* the timer of the "died" handler fires: process.exit(1)
ExitTimer ==
    /\ process.exitTimer
    /\ ~process.exited
    /\ process' = [process EXCEPT !.exited = TRUE, !.exitTimer = FALSE]
    /\ out' = <<>>
    /\ done' = NoDone
    /\ UNCHANGED <<userSocketMap, users, maps, connected, sockRooms, rooms, transports,
                   producers, consumers, queue, subscriberResumed, requests, client>>

\* handlers run as long as the process does; a dead worker refuses every call
Running == ~process.exited
EngineAnswers == IF process.workerDied THEN {FALSE} ELSE BOOLEAN

\* Joins under either name, disconnects, the producer transport and produce
\* requests of both connections with any claimed transport id, the death of
\* the worker at any moment and the exit timer
NextWorker ==
    \/ Quiet /\ Running /\ \E s \in MediaSock, n \in Names :
          Len(users) < MaxObj /\ getUserBySocketId(s) = Nil /\ JoinRequest(s, n, "r1")
    \/ Quiet /\ Running /\ \E s \in MediaSock : Disconnecting(s)
    \/ Quiet /\ Running /\ \E s \in MediaSock : TransportSlot /\ CreateProducerTransport(s)
    \/ Quiet /\ Running /\ \E ok \in EngineAnswers : EngineCreateWebRtcTransport(ok)
    \/ Quiet /\ Running /\ \E ok \in EngineAnswers : EngineSetMaxIncomingBitrate(ok)
    \/ Quiet /\ Running /\ \E s \in MediaSock, kind \in Kinds, transportId \in TransportIds :
          ProducerSlot /\ Produce(s, kind, transportId)
    \/ Quiet /\ Running /\ \E ok \in EngineAnswers : EngineProduce(ok)
    \/ WorkerDied
    \/ ExitTimer

SpecWorker == Init /\ [][NextWorker]_vars

\* Node runs a timer's callback once its delay has passed and the event loop is
\* free; every handler returns to the event loop
SpecWorkerFair == SpecWorker /\ WF_vars(ExitTimer)

\* ------------------------------------------------ the client specification
\* socket.on(GET_ROUTER_RTP_CAPABILITIES): the router exists once the server listens
GetRouterRtpCapabilities(s) ==
    /\ connected[s]
    /\ done' = NoDone
    /\ out' = <<Callback(s, "capabilities", [rtpCapabilities |-> TRUE])>>
    /\ UNCHANGED <<userSocketMap, users, maps, connected, sockRooms, rooms, transports,
                   producers, consumers, queue, subscriberResumed>>

\* the browser whose setupMediasoup is followed
ClientSock == Source

\* the requests setupMediasoup wraps in a setTimeout(..., 10000) that rejects
Timed == {"capabilities", "join-router"}
RequestSteps == {"capabilities", "join-router", "producerTransport", "consumerTransport",
                 "connect", "produce"}

\* setupMediasoup after a request's promise has resolved with `body`
NextStep(c, body) ==
    IF c.step = "capabilities" THEN [c EXCEPT !.step = "join-router"]
    ELSE IF c.step = "join-router" THEN [c EXCEPT !.step = "producerTransport"]
    ELSE IF c.step = "producerTransport"
    THEN [c EXCEPT !.step = "consumerTransport", !.producerTransport = body.id]
    ELSE IF c.step = "consumerTransport" THEN [c EXCEPT !.step = "connect"]
    ELSE IF c.step = "connect" THEN [c EXCEPT !.step = "produce"]
    ELSE IF c.track = "video" THEN [c EXCEPT !.track = "audio", !.isVideoEnabled = TRUE]
    ELSE [c EXCEPT !.step = "complete"]

\* The acknowledgement callbacks of socket.emit: an answer in `o` to the request the
\* client is waiting on, delivered while the connection stands, clears the timer
\* and resolves or rejects the promise
ClientHears(c, o, conn) ==
    LET answers == {i \in 1..Len(o) : /\ o[i].ev = "callback"
                                       /\ o[i].to = {ClientSock}
                                       /\ o[i].req = c.step}
    IN IF c.waiting /\ conn[ClientSock] /\ answers # {}
       THEN LET body == o[CHOOSE i \in answers : \A j \in answers : i <= j].body
                heard == [c EXCEPT !.waiting = FALSE, !.timer = FALSE]
            IN IF "error" \in DOMAIN body
               THEN [heard EXCEPT !.step = "error", !.error = body.error]
               ELSE NextStep(heard, body)
       ELSE c

\* a step of the server that the browser may hear an answer from
Heard == client' = ClientHears(client, out', connected') /\ UNCHANGED <<requests, process>>

\* the request the client has sent and the server has not yet received
Sent(req) == client.inflight = req

\* the server has received the request; the browser may hear its answer at once
Taken ==
    /\ client' = ClientHears([client EXCEPT !.inflight = "none"], out', connected')
    /\ UNCHANGED <<requests, process>>

\* `await new Promise((resolve, reject) => { [setTimeout(...)] socket.emit(...) })`
ClientEmit ==
    /\ client.step \in RequestSteps
    /\ ~client.waiting
    /\ connected[ClientSock]
    /\ client' = [client EXCEPT !.waiting = TRUE, !.inflight = client.step,
                                !.timer = client.step \in Timed]
    /\ UNCHANGED <<userSocketMap, users, maps, connected, sockRooms, rooms, transports,
                   producers, consumers, queue, out, done, subscriberResumed,
                   requests, process>>

\* the timer fires: reject(new Error('Timeout ...')), caught by setupMediasoup
ClientTimeout ==
    /\ client.timer
    /\ client' = [client EXCEPT !.step = "error", !.error = "Timeout",
                                !.waiting = FALSE, !.timer = FALSE]
    /\ UNCHANGED <<userSocketMap, users, maps, connected, sockRooms, rooms, transports,
                   producers, consumers, queue, out, done, subscriberResumed,
                   requests, process>>

\* One browser going through setupMediasoup while both connections join and
\* leave; requests and answers take any time, and the engine answers either way
NextClient ==
    \/ (\E s \in MediaSock : Join(s)) /\ Heard
    \/ (\E s \in MediaSock : Disconnecting(s)) /\ Heard
    \/ ClientEmit
    \/ ClientTimeout
    \/ Sent("capabilities") /\ GetRouterRtpCapabilities(ClientSock) /\ Taken
    \/ Sent("join-router") /\ JoinRouter(ClientSock, Kinds) /\ Taken
    \/ Sent("producerTransport") /\ CreateProducerTransport(ClientSock) /\ Taken
    \/ Sent("consumerTransport") /\ CreateConsumerTransport(ClientSock) /\ Taken
    \/ Sent("connect") /\ ConnectTransport(ClientSock, "producerTransport") /\ Taken
    \/ Sent("produce") /\ Produce(ClientSock, client.track, client.producerTransport) /\ Taken
    \/ (\E ok \in BOOLEAN : EngineCreateWebRtcTransport(ok)) /\ Heard
    \/ (\E ok \in BOOLEAN : EngineSetMaxIncomingBitrate(ok)) /\ Heard
    \/ (\E ok \in BOOLEAN : EngineConnect(ok)) /\ Heard
    \/ (\E ok \in BOOLEAN : EngineProduce(ok)) /\ Heard

SpecClient == Init /\ [][NextClient]_vars

\* a browser timer fires once its delay has passed
SpecClientFair == SpecClient /\ WF_vars(ClientTimeout)

\* ------------------------------------------ the client toggle specification
\* `if (!videoProducer) return`: setVideoProducer has run
VideoProducerSet(c) == c.step = "complete" \/ (c.step = "produce" /\ c.track = "audio")

\* useMediasoup.toggleVideo: socket.emit(TOGGLE_VIDEO, { enabled: !isVideoEnabled },
\* ...) and the 500 ms fallback timer; one exchange at a time
ClientToggleVideo ==
    /\ VideoProducerSet(client)
    /\ connected[ClientSock]
    /\ ~client.toggle.inflight /\ ~client.toggle.fallback
    /\ requests < MaxControl
    /\ requests' = requests + 1
    /\ client' = [client EXCEPT !.toggle = [inflight |-> TRUE, fallback |-> TRUE,
                                            target |-> ~client.isVideoEnabled,
                                            before |-> client.isVideoEnabled,
                                            answer |-> "none"]]
    /\ UNCHANGED <<userSocketMap, users, maps, connected, sockRooms, rooms, transports,
                   producers, consumers, queue, out, done, subscriberResumed, process>>

\* The acknowledgement callback of the TOGGLE_VIDEO emit: an error is logged, a
\* success does setIsVideoEnabled(!isVideoEnabled)
ToggleHears(c, o, conn) ==
    LET answers == {i \in 1..Len(o) : /\ o[i].ev = "callback"
                                       /\ o[i].to = {ClientSock}
                                       /\ o[i].req = StateChanged("video")}
        taken == [c EXCEPT !.toggle.inflight = FALSE]
    IN IF conn[ClientSock] /\ answers # {}
       THEN IF \E i \in answers : "error" \in DOMAIN o[i].body
            THEN [taken EXCEPT !.toggle.answer = "error"]
            ELSE [taken EXCEPT !.toggle.answer = "success",
                               !.isVideoEnabled = c.toggle.target]
       ELSE taken

\* the server receives the client's toggle-video
ToggleTaken ==
    /\ client.toggle.inflight
    /\ ToggleVideo(ClientSock, client.toggle.target)
    /\ client' = ToggleHears(client, out', connected')
    /\ UNCHANGED <<requests, process>>

\* `setTimeout(() => { setIsVideoEnabled(!isVideoEnabled) }, 500)` fires
ClientFallback ==
    /\ client.toggle.fallback
    /\ client' = [client EXCEPT !.toggle.fallback = FALSE,
                                !.isVideoEnabled = client.toggle.target]
    /\ UNCHANGED <<userSocketMap, users, maps, connected, sockRooms, rooms, transports,
                   producers, consumers, queue, out, done, subscriberResumed,
                   requests, process>>

\* The browser's set-up followed by its video toggles, with the presence updates
\* of its own connection and an engine that answers either way
NextClientToggle ==
    \/ NextClient
    \/ ClientToggleVideo
    \/ ToggleTaken
    \/ ClientFallback
    \/ Len(users) < MaxObj /\ TypingStart(ClientSock) /\ Heard
    \/ (\E ok \in BOOLEAN : EngineProducerPauseResume(ok)) /\ Heard

SpecClientToggle == Init /\ [][NextClientToggle]_vars

\* ------------------------------------------- registry-only specifications
\* join-request and disconnect alone
NextJoin ==
    \/ Quiet /\ \E s \in Sock, n \in Names, r \in Rooms :
          Len(users) < MaxObj /\ JoinRequest(s, n, r)
    \/ Quiet /\ \E s \in Sock : Disconnecting(s)

SpecJoin == Init /\ [][NextJoin]_vars

\* join-request, join-room and disconnect
NextReg ==
    \/ Quiet /\ \E s \in Sock, n \in Names, r \in Rooms :
          Len(users) < MaxObj /\ JoinRequest(s, n, r)
    \/ Quiet /\ \E s \in Sock, n \in Names, r \in Rooms :
          Len(users) < MaxObj /\ JoinRoom(s, n, r)
    \/ Quiet /\ \E s \in Sock : Disconnecting(s)

SpecReg == Init /\ [][NextReg]_vars

\* ------------------------------------------------------------ properties
\* The consumers recorded in the Map of some registered peer
Held == UNION {IF users[userSocketMap[i]].consumers = Nil THEN {}
               ELSE Range(maps[users[userSocketMap[i]].consumers])
               : i \in 1..Len(userSocketMap)}

\* The helper that has just returned got past its own producer.pause() /
\* producer.resume()
ProducerPhaseDone == done.ok \/ done.failed # Nil

\* C1: once pauseProducer(P) has returned, its pause of P answered and P still
\* paused, every consumer that was sourced from P when the call began, other
\* than one whose own pause the engine refused, is paused; once
\* resumeProducer(P) has returned likewise with P active, every such consumer
\* that its subscriber is not holding paused is active.
C1_Cascade ==
    /\ (done.h = "pauseProducer" /\ ProducerPhaseDone /\ producers[done.producer].paused)
          => \A c \in done.snap \ {done.failed} : consumers[c].paused
    /\ (done.h = "resumeProducer" /\ ProducerPhaseDone /\ ~producers[done.producer].paused)
          => \A c \in done.snap \ {done.failed} :
                (consumers[c].kind = "audio" \/ c \in subscriberResumed)
                   => ~consumers[c].paused

\* C2: a video consumer whose subscriber has not called resumeConsumer stays
\* paused, whatever the source does with its producer.
C2_InitialPauseKept ==
    \A c \in 1..Len(consumers) :
        (consumers[c].kind = "video" /\ c \notin subscriberResumed)
           => consumers[c].paused

\* C3: once a connection is gone, every transport, producer and consumer of its
\* peer is closed, and every consumer sourced from its producers is closed and
\* held by no registered peer.
C3_DisconnectCloses ==
    \A a \in MediaSock : ~connected[a] =>
        /\ \A t \in 1..Len(transports) : transports[t].sock = a => transports[t].closed
        /\ \A p \in 1..Len(producers) : producers[p].peerId = a => producers[p].closed
        /\ \A c \in 1..Len(consumers) :
              /\ users[consumers[c].owner].socketId = a => consumers[c].closed
              /\ producers[consumers[c].producerId].peerId = a
                    => consumers[c].closed /\ c \notin Held

\* C4: a create-transport request of a peer that already holds a transport of
\* that direction is answered with AlreadyExists, creates nothing and leaves the
\* transport the peer holds in place; no record ever holds more than the one
\* reference per direction.
C4_OneTransportPerDirection ==
    [][\A s \in MediaSock, dir \in {"producerTransport", "consumerTransport"} :
          (/\ CreateTransport(s, dir)
           /\ getUserBySocketId(s) # Nil
           /\ users[getUserBySocketId(s)][dir] # Nil)
          => /\ out' = <<Callback(s, dir, Error(AlreadyExistsMessage(dir)))>>
             /\ users' = users
             /\ transports' = transports
             /\ queue' = queue]_vars

\* C4's case: the second create-producer-transport has just been turned down.
C4_Witness ==
    \E s \in MediaSock :
        /\ out = <<Callback(s, "producerTransport",
                            Error(AlreadyExistsMessage("producerTransport")))>>
        /\ getUserBySocketId(s) # Nil
        /\ users[getUserBySocketId(s)].producerTransport # Nil

\* What the subscriber's capabilities accept, read off the records
Compatible(peer, p) ==
    /\ users[peer].rtpCapabilities # Undefined
    /\ producers[p].kind \in users[peer].rtpCapabilities

\* The producers a returned consume call has descriptors for, one per descriptor
Described(res) == [i \in 1..Len(res) |-> res[i].producerId]

\* C5 as stated: a returned consume(B, A) holds exactly one descriptor for each
\* producer A owned when the call began that B's capabilities accept, and none
\* for a producer they do not accept.
C5_AsStated ==
    done.h = "consume" =>
        \A p \in done.snap :
            Cardinality({i \in 1..Len(done.res) : done.res[i].producerId = p})
               = IF Compatible(done.peer, p) THEN 1 ELSE 0

\* C5, amended: when B held a consumer transport and negotiated capabilities as
\* the call began, the returned list holds exactly one descriptor for each
\* producer A owned then that B's capabilities accept and whose consumer the
\* engine did not refuse, and none for a producer they do not accept; the
\* answer is the list, not an error; and no peer ever holds a consumer of a
\* producer its capabilities do not accept.
C5_Amended ==
    /\ (done.h = "consume" /\ done.ready) =>
          /\ \A p \in done.snap \ done.failed :
                Cardinality({i \in 1..Len(done.res) : done.res[i].producerId = p})
                   = IF Compatible(done.peer, p) THEN 1 ELSE 0
          /\ out = <<Callback(done.sock, "consume", [consumerDetailsArray |-> done.res])>>
    /\ \A c \in 1..Len(consumers) : Compatible(consumers[c].owner, consumers[c].producerId)

\* C5's case: a call that began ready has returned a descriptor for the audio
\* producer and skipped the video producer the subscriber cannot receive.
C5_Witness ==
    /\ done.h = "consume"
    /\ done.ready
    /\ done.failed = {}
    /\ \E p \in done.snap : ~Compatible(done.peer, p)
    /\ \E p \in done.snap : Compatible(done.peer, p)
    /\ Len(done.res) = 1

\* C6: a returned consume call describes only producers the source owned when
\* the call began.
C6_Snapshot ==
    done.h = "consume" => Range(Described(done.res)) \subseteq done.snap

\* C7: a consumer is created paused exactly when its producer is a video
\* producer, and the descriptors a consume call returns report that value.
C7_InitialPause ==
    /\ [][Len(consumers') > Len(consumers) =>
            LET c == consumers'[Len(consumers')]
            IN /\ c.kind = producers[c.producerId].kind
               /\ c.paused = (c.kind = "video")]_vars
    /\ [](done.h = "consume" =>
            \A i \in 1..Len(done.res) :
                /\ done.res[i].kind = producers[done.res[i].producerId].kind
                /\ done.res[i].paused = (done.res[i].kind = "video"))

\* C7's case: a consume call has returned a paused video consumer and an active
\* audio consumer.
C7_Witness ==
    /\ done.h = "consume"
    /\ \E i \in 1..Len(done.res) :
          /\ done.res[i].kind = "video" /\ done.res[i].paused
          /\ consumers[done.res[i].id].paused
    /\ \E i \in 1..Len(done.res) :
          /\ done.res[i].kind = "audio" /\ ~done.res[i].paused
          /\ ~consumers[done.res[i].id].paused

\* C8: a resume-consumer request for a consumer the peer holds is taken up
\* whether the consumer is paused or already active, and when the engine
\* answers it the consumer is active and the peer is told {success: true},
\* however often the call has been made before.
C8_ResumeIdempotent ==
    /\ [][\A c \in 1..Len(consumers) :
            (ResumeConsumer(Sink, c) /\ c \in Held)
               => out' = <<>> /\ Len(queue') = Len(queue) + 1]_vars
    /\ [][(/\ HeadIs("consumer.resume")
           /\ Head(queue).k.h = "resumeConsumer"
           /\ EngineConsumerPauseResume(TRUE))
          => /\ ~consumers'[Head(queue).tgt].paused
             /\ out' = <<Callback(Head(queue).k.sock, "resumeConsumer",
                                  [success |-> TRUE])>>]_vars

\* C8's case: a resume-consumer call made on a video consumer that was already
\* active has been answered.
C8_Witness ==
    /\ done.h = "resumeConsumer"
    /\ ~done.wasPaused
    /\ consumers[done.consumer].kind = "video"
    /\ done.consumer \in subscriberResumed
    /\ ~consumers[done.consumer].paused

\* The connections other than a that hold a record of a room in which a holds
\* a record
RoomMates(a) ==
    {t \in Sock \ {a} :
        \E i, j \in 1..Len(userSocketMap) :
            /\ users[userSocketMap[i]].socketId = a
            /\ users[userSocketMap[j]].socketId = t
            /\ users[userSocketMap[i]].roomId = users[userSocketMap[j]].roomId}

\* The connections that ever joined, by a record or by join-room, a room in
\* which a holds a record
RoomGuests(a) ==
    {t \in Sock \ {a} :
        \E i \in 1..Len(userSocketMap) :
            /\ users[userSocketMap[i]].socketId = a
            /\ users[userSocketMap[i]].roomId \in sockRooms[t]}

UniqueUsernames ==
    \A i, j \in 1..Len(userSocketMap) :
        (/\ i # j
         /\ users[userSocketMap[i]].roomId = users[userSocketMap[j]].roomId)
        => users[userSocketMap[i]].username # users[userSocketMap[j]].username

\* C10: under join-request and disconnect alone no two records of a room share
\* a username, and a join-request whose username the room already holds is
\* answered with username-exists alone and changes neither the registry nor
\* the rooms of the connection.
C10_UniqueUsernames ==
    /\ []UniqueUsernames
    /\ [][\A s \in Sock, n \in Names, r \in Rooms :
            (/\ JoinRequest(s, n, r)
             /\ \E i \in 1..Len(userSocketMap) :
                   /\ users[userSocketMap[i]].roomId = r
                   /\ users[userSocketMap[i]].username = n)
            => /\ Len(out') = 1
               /\ out'[1].ev = "username-exists"
               /\ out'[1].to = {s}
               /\ UNCHANGED <<userSocketMap, users, sockRooms, rooms>>]_vars

\* C10's case: a second connection has just been refused the username another
\* holds in the room, and the registry still holds one record.
C10_Witness ==
    /\ Len(out) = 1
    /\ out[1].ev = "username-exists"
    /\ Len(userSocketMap) = 1
    /\ out[1].to # {users[userSocketMap[1]].socketId}

\* peer.hasVideo / peer.hasAudio
HasFlag(peer, kind) == IF kind = "video" THEN users[peer].hasVideo ELSE users[peer].hasAudio

\* C11: when a produce of kind k has succeeded and its connection is still
\* registered, the new producer is active and in the producers Map of the
\* connection's record, the record's flag for k is true, and the state-changed
\* event of k, enabled, went to the other sockets of the record's room and not
\* to the producing connection.
C11_ProduceRecorded ==
    (done.h = "produce" /\ done.ok /\ getUserBySocketId(done.sock) # Nil) =>
        LET rec == getUserBySocketId(done.sock)
        IN /\ ~producers[done.producer].paused
           /\ producers[done.producer].kind = done.kind
           /\ users[rec].producers # Nil
           /\ done.producer \in Range(maps[users[rec].producers])
           /\ HasFlag(rec, done.kind)
           /\ out[1] = [ev |-> StateChanged(done.kind),
                        to |-> RoomSockets(users[rec].roomId) \ {done.sock},
                        socketId |-> done.sock, enabled |-> TRUE]

\* C12: a produce request of a connection that is not registered or whose
\* record holds no producer transport is answered with the not-found error, one
\* that claims a transport id other than that of the record's producer
\* transport with the invalid-transport error; either way the answer is all
\* that is emitted, no request goes to the engine, and records, Maps and
\* producers stay as they were.
C12_ProduceRejected ==
    [][\A s \in MediaSock, kind \in Kinds, transportId \in TransportIds :
          Produce(s, kind, transportId) =>
             LET peer == getUserBySocketId(s)
                 missing == peer = Nil \/ users[peer].producerTransport = Nil
                 forged == /\ ~missing
                           /\ transportId # Nil
                           /\ transportId # users[peer].producerTransport
             IN /\ missing => out' = <<Callback(s, "produce",
                                          Error("Peer or producer transport not found"))>>
                /\ forged => out' = <<Callback(s, "produce", Error("Invalid transport ID"))>>
                /\ (missing \/ forged) =>
                      UNCHANGED <<queue, users, maps, producers, userSocketMap>>]_vars

\* C12's case: a connection that holds a producer transport has just been
\* refused a produce that claimed another transport id.
C12_Witness ==
    \E s \in MediaSock :
        /\ out = <<Callback(s, "produce", Error("Invalid transport ID"))>>
        /\ getUserBySocketId(s) # Nil
        /\ users[getUserBySocketId(s)].producerTransport # Nil
        /\ producers = <<>>

\* C20 as stated: a join-router of a peer whose capabilities are stored is
\* answered with an error and leaves the records as they were.
C20_AsStated ==
    [][\A s \in MediaSock, caps \in CapsInputs \cup {Undefined} :
          (/\ JoinRouter(s, caps)
           /\ getUserBySocketId(s) # Nil
           /\ users[getUserBySocketId(s)].rtpCapabilities # Undefined)
          => /\ "error" \in DOMAIN out'[1].body
             /\ users' = users]_vars

\* C20, amended: capabilities a record holds never change, the record a
\* connection is looked up by keeps them through presence updates, and a
\* join-router of a peer whose capabilities are stored is answered
\* {success, alreadyJoined} and leaves the records as they were.
C20_Amended ==
    /\ [][\A o \in 1..Len(users) :
            users[o].rtpCapabilities # Undefined
               => users'[o].rtpCapabilities = users[o].rtpCapabilities]_vars
    /\ [][\A s \in MediaSock :
            (/\ getUserBySocketId(s) # Nil
             /\ users[getUserBySocketId(s)].rtpCapabilities # Undefined
             /\ getUserBySocketId(s)' # Nil)
            => users'[getUserBySocketId(s)'].rtpCapabilities
                  = users[getUserBySocketId(s)].rtpCapabilities]_vars
    /\ [][\A s \in MediaSock, caps \in CapsInputs \cup {Undefined} :
            (/\ JoinRouter(s, caps)
             /\ getUserBySocketId(s) # Nil
             /\ users[getUserBySocketId(s)].rtpCapabilities # Undefined)
            => /\ out' = <<Callback(s, "join-router",
                                    [success |-> TRUE, alreadyJoined |-> TRUE])>>
               /\ users' = users]_vars

\* C20's case: a second join-router, asking for other capabilities than the
\* stored ones, has just been answered.
C20_Witness ==
    \E s \in MediaSock :
        /\ out = <<Callback(s, "join-router", [success |-> TRUE, alreadyJoined |-> TRUE])>>
        /\ getUserBySocketId(s) # Nil
        /\ users[getUserBySocketId(s)].rtpCapabilities = {"audio"}

\* A pauseProducer / resumeProducer call for producer p has its producer.pause()
\* / producer.resume() still with the engine
InFlight(p) ==
    \E i \in 1..Len(queue) :
        queue[i].op \in {"producer.pause", "producer.resume"} /\ queue[i].tgt = p

\* The record the connection that owns producer p is looked up by
OwnerOf(p) == getUserBySocketId(producers[p].peerId)

\* C13: a toggle of a peer that owns producers sets the flag of the kind to
\* enabled, tells the other sockets of the room, acknowledges success and
\* starts one pause (resume) per producer of the kind; and once such a call has
\* returned, with no other one for the producer under way and the flag as the
\* toggle left it, the producer is paused exactly when the flag is false.
C13_ToggleTakesEffect ==
    /\ [][\A kind \in Kinds, enabled \in BOOLEAN :
            (/\ Toggle(Source, kind, enabled)
             /\ getUserBySocketId(Source) # Nil
             /\ users[getUserBySocketId(Source)].producers # Nil)
            => LET user == getUserBySocketId(Source)
                   own == Range(maps[users[user].producers])
               IN /\ HasFlag(user, kind)' = enabled
                  /\ out' = <<[ev |-> StateChanged(kind),
                               to |-> RoomSockets(users[user].roomId) \ {Source},
                               socketId |-> Source, enabled |-> enabled],
                              Callback(Source, StateChanged(kind), [success |-> TRUE])>>
                  /\ {queue'[i].tgt : i \in (Len(queue) + 1)..Len(queue')}
                        = {p \in own : producers[p].kind = kind}
                  /\ \A i \in (Len(queue) + 1)..Len(queue') :
                        queue'[i].op = IF enabled THEN "producer.resume"
                                       ELSE "producer.pause"]_vars
    /\ []((/\ done.h \in {"pauseProducer", "resumeProducer"}
           /\ ~InFlight(done.producer)
           /\ HasFlag(OwnerOf(done.producer), producers[done.producer].kind)
                 = (done.h = "resumeProducer"))
          => producers[done.producer].paused = (done.h = "pauseProducer"))

\* C14, for toggle-video to disabled: a pauseProducer call that began with the
\* engine idle and hasVideo of the owner already false (so a second
\* application) has returned, no other call for the producer is under way and
\* no subscriber has resumed a consumer sourced from the producer; the producer
\* and those consumers are as they were when the call began.
C14_RepeatChangesNothing ==
    (/\ done.h = "pauseProducer"
     /\ done.idle
     /\ ~done.was.flag
     /\ producers[done.producer].kind = "video"
     /\ done.snap \cap subscriberResumed = {}
     /\ ~InFlight(done.producer))
    => /\ producers[done.producer].paused = done.was.producer
       /\ \A c \in done.snap : consumers[c].paused = done.was.consumers[c]

\* The kind the request at the head of the engine's queue is about
KindOfHead ==
    IF Head(queue).op \in {"producer.pause", "producer.resume"}
    THEN producers[Head(queue).tgt].kind
    ELSE consumers[Head(queue).tgt].kind

\* Nothing of a kind other than kind changes in the step: no producer, no
\* consumer, no flag
OtherKindsKept(kind) ==
    /\ \A p \in 1..Len(producers) : producers[p].kind # kind => producers'[p] = producers[p]
    /\ \A c \in 1..Len(consumers) : consumers[c].kind # kind => consumers'[c] = consumers[c]
    /\ \A o \in 1..Len(users), other \in Kinds \ {kind} :
          HasFlag(o, other)' = HasFlag(o, other)

\* C15: a toggle of one kind changes no flag, producer or consumer of the other
\* kind and asks the engine only about producers of its kind; and a step in
\* which the engine answers a pause / resume about a producer or consumer of a
\* kind changes nothing of the other kind and asks the engine only about
\* consumers of the same kind.
C15_KindsIndependent ==
    /\ [][\A kind \in Kinds, enabled \in BOOLEAN :
            Toggle(Source, kind, enabled)
            => /\ OtherKindsKept(kind)
               /\ \A i \in (Len(queue) + 1)..Len(queue') :
                     producers[queue'[i].tgt].kind = kind]_vars
    /\ [][(/\ queue # <<>>
           /\ Head(queue).op \in {"producer.pause", "producer.resume",
                                  "consumer.pause", "consumer.resume"}
           /\ \E ok \in BOOLEAN :
                 EngineProducerPauseResume(ok) \/ EngineConsumerPauseResume(ok))
          => /\ OtherKindsKept(KindOfHead)
             /\ \A i \in Len(queue)..Len(queue') :
                   consumers[queue'[i].tgt].kind = KindOfHead]_vars

\* C15's case: toggle-video(false) has run its cascade to the end; the video
\* producer and its consumer are paused, the audio producer and its consumer
\* are active and hasAudio is still true.
C15_Witness ==
    /\ done.h = "pauseProducer"
    /\ done.ok
    /\ producers[done.producer].kind = "video"
    /\ producers[done.producer].paused
    /\ \E c \in done.snap : consumers[c].paused
    /\ \E p \in 1..Len(producers) :
          /\ producers[p].kind = "audio" /\ ~producers[p].paused
          /\ producers[p].peerId = producers[done.producer].peerId
          /\ \E c \in 1..Len(consumers) :
                consumers[c].producerId = p /\ ~consumers[c].paused
    /\ HasFlag(OwnerOf(done.producer), "audio")
    /\ ~HasFlag(OwnerOf(done.producer), "video")

\* C16: when a pauseProducer / resumeProducer call has returned after the
\* engine refused the pause (resume) of one consumer, every other consumer
\* that was sourced from the producer when the call began is paused (active).
C16_CascadeIsolation ==
    (done.h \in {"pauseProducer", "resumeProducer"} /\ done.failed # Nil)
    => \A c \in done.snap \ {done.failed} :
          consumers[c].paused = (done.h = "pauseProducer")

\* The descriptor list a consume call has gathered after the step: the one it
\* answers with, or the one its next createConsumer carries
GatheredNext ==
    IF done'.h = "consume" THEN done'.res ELSE queue'[Len(queue')].k.res

\* C17: a consume call in which the engine refused the consumer of some
\* producer answers with the list, not an error; the list has a descriptor for
\* every other producer the source owned when the call began that the caller
\* could receive, none for a refused producer, and each descriptor names a
\* distinct consumer of the caller sourced from the producer it names; and
\* each answer of the engine either adds one consumer and its descriptor or
\* adds neither.
C17_ConsumeIsolated ==
    /\ []((done.h = "consume" /\ done.failed # {})
          => /\ out = <<Callback(done.sock, "consume", [consumerDetailsArray |-> done.res])>>
             /\ \A p \in done.snap \ done.failed :
                   (done.ready /\ Compatible(done.peer, p))
                      => \E i \in 1..Len(done.res) : done.res[i].producerId = p
             /\ \A i \in 1..Len(done.res) :
                   /\ done.res[i].producerId \notin done.failed
                   /\ done.res[i].id \in 1..Len(consumers)
                   /\ consumers[done.res[i].id].producerId = done.res[i].producerId
                   /\ consumers[done.res[i].id].owner = done.peer
                   /\ done.res[i].id \in Range(maps[users[done.peer].consumers])
                   /\ \A j \in 1..Len(done.res) : done.res[j].id = done.res[i].id => j = i)
    /\ [][(HeadIs("consume") /\ \E ok \in BOOLEAN : EngineConsume(ok))
          => LET before == Head(queue).k.res
             IN \/ consumers' = consumers /\ GatheredNext = before
                \/ /\ Len(consumers') = Len(consumers) + 1
                   /\ Len(GatheredNext) = Len(before) + 1
                   /\ GatheredNext[Len(GatheredNext)].id = Len(consumers')]_vars

\* C17's case: the source owned two producers, the engine refused the consumer
\* of one and the call returned the descriptor of the other.
C17_Witness ==
    /\ done.h = "consume"
    /\ Cardinality(done.snap) = 2
    /\ Cardinality(done.failed) = 1
    /\ Len(done.res) = 1

\* C18: no record's producers Map holds a closed producer and no record's
\* consumers Map holds a closed consumer; and what depends on something closed
\* is closed: a producer on a closed transport, a consumer on a closed
\* transport, a consumer of a closed producer.
C18_ClosureRemoves ==
    /\ \A o \in 1..Len(users) :
          /\ users[o].producers # Nil
                => \A p \in Range(maps[users[o].producers]) : ~producers[p].closed
          /\ users[o].consumers # Nil
                => \A c \in Range(maps[users[o].consumers]) : ~consumers[c].closed
    /\ \A p \in 1..Len(producers) :
          transports[producers[p].transport].closed => producers[p].closed
    /\ \A c \in 1..Len(consumers) :
          (\/ transports[consumers[c].transport].closed
           \/ producers[consumers[c].producerId].closed) => consumers[c].closed

\* C18's case: the source's transport has closed with a producer on it; a
\* consumer of that producer, on the subscriber's open transport, has closed
\* with it, and the subscriber's record has been rebuilt by a presence update
\* since the consumer was created.
C18_Witness ==
    /\ done.h = "close"
    /\ done.producers # {}
    /\ \E c \in done.consumers :
          /\ consumers[c].transport \notin done.transports
          /\ consumers[c].owner \notin Range(userSocketMap)
          /\ Registered(users[consumers[c].owner].socketId)

\* The socket whose CONSUME created consumer c
CreatorOf(c) == users[consumers[c].owner].socketId

\* C19: a resumeConsumer from a registered peer for an id that is not in its
\* own consumers Map is answered 'Consumer not found', asks nothing of the
\* engine and changes no consumer; and the id of no consumer, of a consumer
\* that another socket created, or of a closed consumer is never in that Map.
C19_ResumeNotFound ==
    /\ [][\A s \in MediaSock, c \in ConsumerIds :
            (/\ ResumeConsumer(s, c)
             /\ Registered(s)
             /\ LET m == users[getUserBySocketId(s)].consumers
                IN m = Nil \/ c \notin Range(maps[m]))
            => /\ out' = <<Callback(s, "resumeConsumer", Error("Consumer not found"))>>
               /\ UNCHANGED <<queue, consumers, maps, users>>]_vars
    /\ [](\A s \in MediaSock, c \in ConsumerIds :
            (/\ Registered(s)
             /\ \/ c > Len(consumers)
                \/ CreatorOf(c) # s
                \/ consumers[c].closed)
            => LET m == users[getUserBySocketId(s)].consumers
               IN m = Nil \/ c \notin Range(maps[m]))

\* C19's case: the subscriber has just been refused a resume when every id it
\* could ask for was a consumer it had created and that has closed since.
C19_Witness ==
    /\ Len(out) = 1
    /\ out[1] = Callback(Sink, "resumeConsumer", Error("Consumer not found"))
    /\ users[getUserBySocketId(Sink)].consumers # Nil
    /\ \A c \in ConsumerIds :
          c <= Len(consumers) /\ CreatorOf(c) = Sink /\ consumers[c].closed

\* The step answers with nothing but an error to socket s
OnlyErrorTo(s) ==
    /\ Len(out') = 1
    /\ out'[1].ev = "callback"
    /\ out'[1].to = {s}
    /\ "error" \in DOMAIN out'[1].body

\* C21: when the engine answers a produce or the last call of a transport
\* creation and the socket that asked has no record any more, the handler
\* answers with an error only, and writes to no record and to no Map.
C21_Revalidates ==
    /\ [][\A ok \in BOOLEAN :
            (/\ HeadIs("produce")
             /\ getUserBySocketId(Head(queue).k.sock) = Nil
             /\ EngineProduce(ok))
            => /\ OnlyErrorTo(Head(queue).k.sock)
               /\ UNCHANGED <<users, maps>>]_vars
    /\ [][\A ok \in BOOLEAN :
            (/\ HeadIs("setMaxIncomingBitrate")
             /\ getUserBySocketId(Head(queue).k.sock) = Nil
             /\ EngineSetMaxIncomingBitrate(ok))
            => /\ OnlyErrorTo(Head(queue).k.sock)
               /\ UNCHANGED <<users, maps>>]_vars

\* C22: a transport, producer or consumer that exists once the engine has
\* answered the last call of an operation whose socket has disconnected
\* meanwhile is closed.
C22_NoLeak ==
    /\ [][\A ok \in BOOLEAN :
            (/\ HeadIs("setMaxIncomingBitrate")
             /\ ~connected[Head(queue).k.sock]
             /\ EngineSetMaxIncomingBitrate(ok))
            => transports'[Head(queue).tgt].closed]_vars
    /\ [][\A ok \in BOOLEAN :
            (/\ HeadIs("produce")
             /\ ~connected[Head(queue).k.sock]
             /\ EngineProduce(ok))
            => \A p \in (Len(producers) + 1)..Len(producers') : producers'[p].closed]_vars
    /\ [][\A ok \in BOOLEAN :
            (/\ HeadIs("consume")
             /\ ~connected[Head(queue).k.sock]
             /\ EngineConsume(ok))
            => \A c \in (Len(consumers) + 1)..Len(consumers') : consumers'[c].closed]_vars

\* What the registry holds: the records, their Maps, and the engine's objects
Registry == <<userSocketMap, users, maps, transports, producers, consumers,
              connected, sockRooms, rooms>>

\* C23: a step in which the engine refuses the createWebRtcTransport of a
\* create-transport, the connect of a connect-transport, the produce of a
\* produce or the resume of a resumeConsumer answers the requester with an
\* error and emits nothing else, changes nothing of the registry, and leaves
\* the other awaited calls in place.
C23_EngineFailureContained ==
    [][(/\ queue # <<>>
        /\ \/ HeadIs("createWebRtcTransport") /\ EngineCreateWebRtcTransport(FALSE)
           \/ HeadIs("connect") /\ EngineConnect(FALSE)
           \/ HeadIs("produce") /\ EngineProduce(FALSE)
           \/ /\ HeadIs("consumer.resume") /\ Head(queue).k.h = "resumeConsumer"
              /\ EngineConsumerPauseResume(FALSE))
       => /\ OnlyErrorTo(Head(queue).k.sock)
          /\ UNCHANGED Registry
          /\ queue' = Tail(queue)]_vars

\* C23's case: the engine has just refused a produce of a peer that already
\* owns a producer, which is still in its Map.
C23_Witness ==
    /\ done.h = "produce"
    /\ ~done.ok
    /\ Len(out) = 1
    /\ "error" \in DOMAIN out[1].body
    /\ Registered(done.sock)
    /\ users[getUserBySocketId(done.sock)].producers # Nil
    /\ Range(maps[users[getUserBySocketId(done.sock)].producers]) # {}

\* No record of userSocketMap is for socket s
Unknown(s) == \A i \in 1..Len(userSocketMap) : users[userSocketMap[i]].socketId # s

\* C24: a consume from a socket without a record, or naming a socket without
\* a record, is answered with an error only ('Peer not found', 'Source peer
\* not found'), asks nothing of the engine and changes nothing of the registry.
C24_ConsumeNotFound ==
    [][\A s \in MediaSock, peerId \in Sock :
         (Consume(s, peerId) /\ (Unknown(s) \/ Unknown(peerId)))
         => /\ out' = <<Callback(s, "consume",
                          Error(IF Unknown(s) THEN "Peer not found"
                                ELSE "Source peer not found"))>>
            /\ UNCHANGED queue
            /\ UNCHANGED Registry]_vars

\* C24's case: the subscriber, with its consumer transport and capabilities,
\* has just been refused a consume from the source, which had produced and has
\* disconnected.
C24_Witness ==
    /\ out = <<Callback(Sink, "consume", Error("Source peer not found"))>>
    /\ ~connected[Source]
    /\ \E p \in 1..Len(producers) : producers[p].peerId = Source
    /\ HasTransport(Sink, "consumerTransport")

\* C25: a join-request whose username the room does not hold adds one record
\* for the connection, answers the connection alone with join-accepted
\* carrying that record and, once each, exactly the records of the room that
\* belong to other connections, and emits user-joined for the new record to
\* every one of those connections and not to the joiner.
C25_JoinAccepted ==
    [][\A s \in Sock, n \in Names, r \in Rooms :
         (/\ JoinRequest(s, n, r)
          /\ ~\E i \in 1..Len(userSocketMap) :
                 users[userSocketMap[i]].roomId = r /\ users[userSocketMap[i]].username = n)
         => LET others == {o \in Range(userSocketMap') :
                              users'[o].roomId = r /\ users'[o].socketId # s}
                new == userSocketMap'[Len(userSocketMap')]
            IN /\ userSocketMap' = Append(userSocketMap, new)
               /\ new \notin Range(userSocketMap)
               /\ users'[new].socketId = s
               /\ users'[new].username = n
               /\ users'[new].roomId = r
               /\ Len(out') = 2
               /\ out'[1].ev = "join-accepted"
               /\ out'[1].to = {s}
               /\ out'[1].user = new
               /\ Range(out'[1].users) = others
               /\ Len(out'[1].users) = Cardinality(others)
               /\ out'[2].ev = "user-joined"
               /\ out'[2].user = new
               /\ {users'[o].socketId : o \in others} \subseteq out'[2].to
               /\ s \notin out'[2].to]_vars

\* C25's case: a connection has just been accepted into a room that holds
\* another connection's record, while a third connection is registered in the
\* other room.
C25_Witness ==
    /\ Len(out) = 2
    /\ out[1].ev = "join-accepted"
    /\ Len(out[1].users) = 1
    /\ \E i \in 1..Len(userSocketMap) :
          users[userSocketMap[i]].roomId # users[out[1].user].roomId

\* The source's video is off and the cascade has reached the subscriber: the
\* video producer and the video consumer are paused, the audio producer and
\* the audio consumer are active
VideoOff ==
    /\ \A p \in 1..Len(producers) : producers[p].paused = (producers[p].kind = "video")
    /\ \A c \in 1..Len(consumers) : consumers[c].paused = (consumers[c].kind = "video")

\* C26: in the scenario every produce leaves an active producer; the consume
\* returns two descriptors, the video one paused and the audio one not, for two
\* consumers in that state; the resume leaves the video consumer active; the
\* toggle sets hasVideo to false, emits video-state-changed {source, false} to
\* the subscriber and acknowledges success; and when its pauseProducer has
\* returned, and ever after, the video producer and the video consumer are
\* paused and the audio producer and the audio consumer are active.
C26_Scenario ==
    /\ [](done.h = "produce" => done.ok /\ ~producers[done.producer].paused)
    /\ [](done.h = "consume"
          => /\ Len(done.res) = 2
             /\ {[kind |-> done.res[i].kind, paused |-> done.res[i].paused] :
                    i \in 1..2}
                   = {[kind |-> "video", paused |-> TRUE], [kind |-> "audio", paused |-> FALSE]}
             /\ \A i \in 1..2 :
                   /\ consumers[done.res[i].id].kind = done.res[i].kind
                   /\ consumers[done.res[i].id].paused = done.res[i].paused
                   /\ producers[done.res[i].producerId].kind = done.res[i].kind
                   /\ producers[done.res[i].producerId].peerId = Source
                   /\ CreatorOf(done.res[i].id) = Sink)
    /\ [](done.h = "resumeConsumer"
          => /\ consumers[done.consumer].kind = "video"
             /\ ~consumers[done.consumer].paused
             /\ out = <<Callback(Sink, "resumeConsumer", [success |-> TRUE])>>)
    /\ [][ToggleVideo(Source, FALSE)
          => /\ ~users'[getUserBySocketId(Source)].hasVideo
             /\ users'[getUserBySocketId(Source)].hasAudio
             /\ out' = <<[ev |-> "video-state-changed", to |-> {Sink},
                          socketId |-> Source, enabled |-> FALSE],
                         Callback(Source, "video-state-changed", [success |-> TRUE])>>]_vars
    /\ []((/\ Registered(Source)
           /\ ~users[getUserBySocketId(Source)].hasVideo
           /\ \E p \in 1..Len(producers) : producers[p].kind = "video"
           /\ done.h = "pauseProducer" \/ Idle)
          => VideoOff /\ Len(consumers) = 2 /\ Len(producers) = 2)

\* C26's case: the scenario has run to its end and the engine is idle.
C26_Witness ==
    /\ Idle
    /\ Len(producers) = 2
    /\ Len(consumers) = 2
    /\ VideoConsumers # {}
    /\ VideoConsumers \subseteq subscriberResumed
    /\ ~users[getUserBySocketId(Source)].hasVideo
    /\ VideoOff

\* C28: when the engine refuses the maximum-incoming-bitrate cap, transport creation
\* goes on as if it had accepted it: the new transport is stored in the peer record
\* the handler holds, in the requested direction, and the requester is answered
\* with the transport's connection parameters, the ICE server list among them,
\* and with no error.
C28_CapFailureTolerated ==
    [][ (HeadIs("setMaxIncomingBitrate") /\ EngineSetMaxIncomingBitrate(FALSE))
        => /\ users'[Head(queue).k.peer][Head(queue).k.dir] = Head(queue).tgt
           /\ Len(out') = 1
           /\ out'[1].ev = "callback"
           /\ out'[1].to = {Head(queue).k.sock}
           /\ "error" \notin DOMAIN out'[1].body
           /\ out'[1].body.id = Head(queue).tgt
           /\ out'[1].body.iceServers ]_vars

\* a registered peer has just been answered with the parameters of a transport whose
\* cap was refused, and the transport is the one in its record
C28_Witness ==
    \E s \in MediaSock, dir \in Directions :
        /\ Registered(s)
        /\ Len(out) = 1
        /\ out[1].ev = "callback" /\ out[1].to = {s} /\ out[1].req = dir
        /\ "bitrateCapped" \in DOMAIN out[1].body
        /\ ~out[1].body.bitrateCapped
        /\ users[getUserBySocketId(s)][dir] = out[1].body.id
        /\ ~transports[out[1].body.id].closed

\* C30: when a transport creation completes for a peer whose record already holds
\* a transport of that direction (an overlapping request of the same peer stored
\* it meanwhile), the request is refused: the requester is answered with an error,
\* the transport in the record is not replaced, and the transport the engine
\* created for the later request is closed, not left live without an owner.
C30_OverlapLeavesOneTransport ==
    [][\A ok \in BOOLEAN :
          (/\ HeadIs("setMaxIncomingBitrate")
           /\ users[Head(queue).k.peer][Head(queue).k.dir] # Nil
           /\ EngineSetMaxIncomingBitrate(ok))
          => /\ users'[Head(queue).k.peer][Head(queue).k.dir]
                   = users[Head(queue).k.peer][Head(queue).k.dir]
             /\ transports'[Head(queue).tgt].closed
             /\ Len(out') = 1
             /\ "error" \in DOMAIN out'[1].body]_vars

\* what the last step answered with an error: a callback carrying one, or the
\* username-exists refusal
ErrorAnswered ==
    \E i \in 1..Len(out) :
        \/ out[i].ev = "username-exists"
        \/ out[i].ev = "callback" /\ "error" \in DOMAIN out[i].body

\* C27: once the worker has died the process exits, whatever requests are handled
\* in between; the process exits only after the worker has died, and no step that
\* answers a request with an error (peer or transport not found, already exists,
\* username taken, invalid transport id, engine failure) ends the process.
C27_WorkerDeathFatal ==
    /\ process.workerDied ~> process.exited
    /\ [](process.exited => process.workerDied)
    /\ [][ErrorAnswered' => process'.exited = process.exited]_vars

\* the process has exited after the worker died, with a request that the dead
\* worker had not yet answered still suspended
C27_Witness ==
    /\ process.workerDied
    /\ process.exited
    /\ queue # <<>>
    /\ \E s \in MediaSock : Registered(s)

\* C29: every wait of setupMediasoup for the answer to a request ends, whether or
\* not the answer arrives: the request is resolved, rejected, or fails with a
\* timeout.
C29_WaitsBounded ==
    \A req \in RequestSteps :
        (client.waiting /\ client.step = req) ~> ~(client.waiting /\ client.step = req)

\* the producers in the producers Map of the record of socket s
ProducersOf(s) ==
    LET m == users[getUserBySocketId(s)].producers
    IN IF m = Nil THEN {} ELSE Range(maps[m])

\* C31: once every cascade the source's toggles started has returned and the
\* engine has nothing left to answer, each producer of the source is paused
\* exactly when the flag of its kind is false, and so is every consumer sourced
\* from it that its subscriber has resumed.
C31_TogglesSettle ==
    (Idle /\ Registered(Source)) =>
        \A p \in ProducersOf(Source) :
            LET off == ~HasFlag(getUserBySocketId(Source), producers[p].kind)
            IN /\ producers[p].paused = off
               /\ \A c \in SourcedFrom(p) \cap subscriberResumed : consumers[c].paused = off

\* both toggles have been sent, their cascades are over, and the video producer
\* and a consumer of it that the subscriber had resumed are paused
C31_Witness ==
    /\ Idle
    /\ requests = MaxControl
    /\ Registered(Source)
    /\ ~users[getUserBySocketId(Source)].hasVideo
    /\ \E p \in ProducersOf(Source) :
          /\ producers[p].kind = "video"
          /\ producers[p].paused
          /\ \E c \in SourcedFrom(p) \cap subscriberResumed : consumers[c].paused

\* C32: whatever presence updates were handled meanwhile, when the creation of a
\* transport completes for a connection that is registered, the transport is in
\* the record the connection is looked up by; and when a produce has succeeded
\* for a registered connection, that record holds the producer in its producers
\* Map and has the flag of the kind set.
C32_PresenceKeepsMedia ==
    /\ [][\A ok \in BOOLEAN, s \in MediaSock, dir \in Directions, t \in 1..MaxTransports :
            (/\ HeadIs("setMaxIncomingBitrate")
             /\ Head(queue).k.sock = s /\ Head(queue).k.dir = dir /\ Head(queue).tgt = t
             /\ EngineSetMaxIncomingBitrate(ok)
             /\ Registered(s)')
            => (users[getUserBySocketId(s)][dir])' = t]_vars
    /\ []((done.h = "produce" /\ done.ok /\ Registered(done.sock))
           => /\ done.producer \in ProducersOf(done.sock)
              /\ HasFlag(getUserBySocketId(done.sock), done.kind))

\* C33: the client's isVideoEnabled changes only with a success answer: while the
\* answer to its toggle is an error, or its connection is gone with the toggle
\* unanswered, the flag has the value it had before the toggle; and once an
\* answered exchange is over (the fallback timer has fired too), the flag equals
\* hasVideo of the record of the client's connection.
C33_FlagFollowsAck ==
    /\ client.toggle.answer = "error" => client.isVideoEnabled = client.toggle.before
    /\ (client.toggle.inflight /\ ~connected[ClientSock])
          => client.isVideoEnabled = client.toggle.before
    /\ (/\ client.toggle.answer # "none"
        /\ ~client.toggle.inflight /\ ~client.toggle.fallback
        /\ Registered(ClientSock))
          => client.isVideoEnabled = users[getUserBySocketId(ClientSock)].hasVideo

\* C34: a toggle of either kind from a connection that is not registered, or whose
\* record has no producers Map, is answered with an error and with nothing
\* else: no record, no producer or consumer and no pending engine call changes,
\* and no state-changed event is sent.
C34_ToggleRefused ==
    [][\A s \in MediaSock, kind \in Kinds, enabled \in BOOLEAN :
          (/\ Toggle(s, kind, enabled)
           /\ (~Registered(s) \/ users[getUserBySocketId(s)].producers = Nil))
          => /\ Len(out') = 1
             /\ out'[1].ev = "callback"
             /\ out'[1].to = {s}
             /\ "error" \in DOMAIN out'[1].body
             /\ users' = users /\ userSocketMap' = userSocketMap /\ maps' = maps
             /\ producers' = producers /\ consumers' = consumers
             /\ queue' = queue]_vars

\* a registered peer that has not produced has just had its video toggle refused
C34_Witness ==
    /\ Registered(Source)
    /\ users[getUserBySocketId(Source)].producers = Nil
    /\ producers = <<>>
    /\ Len(out) = 1
    /\ out[1].ev = "callback" /\ out[1].to = {Source}
    /\ out[1].req = StateChanged("video")
    /\ "error" \in DOMAIN out[1].body

\* C35: the registry never holds two records of one connection.
C35_OneRecordPerConnection ==
    \A i, j \in 1..Len(userSocketMap) :
        users[userSocketMap[i]].socketId = users[userSocketMap[j]].socketId => i = j

\* no pause or resume of a producer or consumer is awaiting the engine's answer
NoCascade ==
    \A i \in 1..Len(queue) :
        queue[i].op \notin {"producer.pause", "producer.resume",
                            "consumer.pause", "consumer.resume"}

\* C36: while no cascade is under way, a registered peer whose hasVideo (hasAudio)
\* is true has a producer of that kind in its producers Map, and no producer of
\* that kind in the Map is paused.
C36_FlagMeansProducing ==
    \A s \in MediaSock, kind \in Kinds :
        (NoCascade /\ Registered(s) /\ HasFlag(getUserBySocketId(s), kind))
        => /\ \E p \in ProducersOf(s) : producers[p].kind = kind
           /\ \A p \in ProducersOf(s) : producers[p].kind = kind => ~producers[p].paused

\* C37: while no cascade is under way, every consumer a registered peer holds
\* whose source producer is paused is paused too.
C37_PausedProducerPausedConsumers ==
    NoCascade =>
        \A p \in 1..Len(producers) :
            (producers[p].paused /\ ~producers[p].closed)
            => \A c \in SourcedFrom(p) : consumers[c].closed \/ consumers[c].paused

\* C38: the record that holds a consumer and the record that owns the consumer's
\* source producer are of the same room.
C38_NoCrossRoomMedia ==
    \A c \in 1..Len(consumers) :
        users[consumers[c].owner].roomId
            = users[producers[consumers[c].producerId].owner].roomId

\* the open consumers in the consumers Map of the record of socket s
ConsumersOf(s) ==
    LET m == users[getUserBySocketId(s)].consumers
    IN IF m = Nil THEN {} ELSE {c \in Range(maps[m]) : ~consumers[c].closed}

\* C39: a registered peer never holds two open consumers of the same producer.
C39_OneConsumerPerProducer ==
    \A s \in MediaSock :
        Registered(s) =>
            \A c, d \in ConsumersOf(s) :
                consumers[c].producerId = consumers[d].producerId => c = d

=============================================================================
